---- MODULE Spec2Model ----
(***************************************************************************)
(* Model of the durable job queue (src/src/queue) and of the encode worker *)
(* that drives it (src/src/encoder/worker.rs), together with the two other *)
(* clients of the store: the intake loop that enqueues new jobs            *)
(* (src/src/watcher/manager.rs) and the operator's CLI commands            *)
(* retry-dead-letter and queue-clear (src/src/lib.rs).                     *)
(*                                                                         *)
(* Every store command (SET, GET, RPUSH, LPUSH, LPOP, LREM, SADD, SREM,    *)
(* LLEN, DEL) is one atomic step; the in-memory code that runs between two *)
(* awaits is folded into the step of the command that follows it.          *)
(* Timestamps (created_at, updated_at and the values of started_at and     *)
(* completed_at) are wall-clock values: the model keeps only whether the   *)
(* optional ones are set.  The paths and the profile name of a job never   *)
(* change after EncodeJob::new and are determined by the job's id.         *)
(***************************************************************************)
EXTENDS Integers, Sequences, FiniteSets, TLC

\* Bounds of the model.
MaxJobs == 2
MaxAttemptsCap == 2
MaxOperatorCalls == 2
MaxTime == 4
MaxDuration == 2
MaxSize == 2
MaxFsEvents == 2
MaxStreams == 2
MaxRules == 2
MaxCap == 1
MaxEdits == 2
MaxLines == 2
MaxProfiles == 3
MaxSubStreams == 2
MaxFiles == 101
MaxSources == 2
MaxCompleted == 2

JobIds == 1..MaxJobs

\* The files the watched folder may hold.
Paths == {"a.mkv", "b.mkv"}

\* Option<T>: <<>> is None, <<v>> is Some(v).
None == <<>>
Some(v) == <<v>>

\* The text of the pipeline error (EncoderError's Display output).
PipelineError == <<"encoder", "failed">>

\* Display of a u32 inside format!.
DigitStr == <<"0", "1", "2", "3", "4", "5", "6", "7", "8", "9">>
RECURSIVE U32ToString(_)
U32ToString(n) == IF n < 10 THEN <<DigitStr[n + 1]>>
                  ELSE U32ToString(n \div 10) \o <<DigitStr[(n % 10) + 1]>>

\* A string built from words; a number is spelled by its digits.
Exhausted(n) == <<"Exhausted">> \o U32ToString(n) \o <<"attempts.">>
ExhaustedReason(n, error) == Exhausted(n) \o <<"Last", "error:">> \o error

StartsWith(s, p) == Len(s) >= Len(p) /\ SubSeq(s, 1, Len(p)) = p

(***************************************************************************)
(* EncodeJob and its methods (src/src/queue/job.rs).                       *)
(***************************************************************************)
JobStatus == {"Pending", "InProgress", "Completed", "Failed", "DeadLetter"}

NewJob(id) ==
    [id |-> id, status |-> "Pending", attempt_count |-> 0,
     started_at |-> FALSE, completed_at |-> FALSE,
     error_message |-> None, progress |-> None, result_metadata |-> FALSE]

start(job) ==
    [job EXCEPT !.status = "InProgress", !.started_at = TRUE,
                !.attempt_count = @ + 1]

complete(job) ==
    [job EXCEPT !.status = "Completed", !.completed_at = TRUE,
                !.progress = Some(100), !.result_metadata = TRUE]

fail(job, error) ==
    [job EXCEPT !.status = "Failed", !.error_message = Some(error)]

\* Mutant: retry sets the status and leaves the error message of fail().
retry_keeps_error(job) == [job EXCEPT !.status = "Pending"]

retry(job) ==
    [job EXCEPT !.status = "Pending", !.error_message = None,
                !.progress = None]

\* Mutant: dead_letter sets the status and leaves the error message of fail().
dead_letter_keeps_error(job, reason) == [job EXCEPT !.status = "DeadLetter"]

dead_letter(job, reason) ==
    [job EXCEPT !.status = "DeadLetter", !.error_message = Some(reason)]

(***************************************************************************)
(* serde_json of an EncodeJob: JobStatus is renamed to snake_case, an      *)
(* Option is null or the value.                                            *)
(***************************************************************************)
StatusToJson(s) ==
    CASE s = "Pending" -> "pending"
      [] s = "InProgress" -> "in_progress"
      [] s = "Completed" -> "completed"
      [] s = "Failed" -> "failed"
      [] s = "DeadLetter" -> "dead_letter"

StatusFromJson(s) ==
    CASE s = "pending" -> "Pending"
      [] s = "in_progress" -> "InProgress"
      [] s = "completed" -> "Completed"
      [] s = "failed" -> "Failed"
      [] s = "dead_letter" -> "DeadLetter"

to_string(job) ==
    <<"id", job.id, "status", StatusToJson(job.status),
      "attempt_count", job.attempt_count,
      "started_at", IF job.started_at THEN "ts" ELSE "null",
      "completed_at", IF job.completed_at THEN "ts" ELSE "null",
      "error_message", job.error_message,
      "progress", job.progress,
      "result_metadata", IF job.result_metadata THEN "meta" ELSE "null">>

from_str(json) ==
    [id |-> json[2], status |-> StatusFromJson(json[4]),
     attempt_count |-> json[6],
     started_at |-> (json[8] # "null"), completed_at |-> (json[10] # "null"),
     error_message |-> json[12], progress |-> json[14],
     result_metadata |-> (json[16] # "null")]

(***************************************************************************)
(* State.                                                                  *)
(***************************************************************************)
VARIABLES
    queue,        \* encode:queue, the pending list (head first)
    processing,   \* encode:processing, the in-flight set
    dead,         \* encode:dead_letter, the dead-letter list
    jobs,         \* encode:job:<id>, None or Some(JSON document)
    max_attempts, \* global.retry.max_attempts, read once at startup
    wpc,          \* the worker's position in run()
    wid,          \* the id dequeue popped
    wjob,         \* the worker's in-memory job, None or Some(job)
    epc,          \* the intake loop's position in enqueue()
    nextId,       \* the id of the next job EncodeJob::new creates
    opc,          \* the operator command's position
    oid,          \* the job id given to retry-dead-letter, 0 outside a call
    ojob,         \* the job retry_dead_letter read, None or Some(job)
    ores,         \* the result of the last operator command
    olen,         \* the length the last clear_queue read
    opCalls,      \* the number of operator commands started
    oInDlq,       \* history: did LREM find oid in the dead-letter list
    starts,       \* history: per job, the number of start() calls
    requeued,     \* history: per job, the number of RPUSHes by retry_dead_letter
    hist,         \* history: per job, the statuses written to its record
    qtag,         \* history: per entry of queue, the operation that pushed it
    popped,       \* history: the jobs pushed by enqueue, in the order popped
    enqEmpty,     \* history: per job, was the pending list empty at its enqueue
    lastTrans     \* history: the status changes made by the last step

\* The stability tracker and the intake loop around it (src/src/watcher).
VARIABLES
    stability_duration, \* global.stability_check.duration_seconds
    poll_interval,      \* global.stability_check.poll_interval_seconds
    watching,           \* per path, the profiles whose watchers cover its folder
    fsize,              \* the file system: per path, None or Some(size in bytes)
    tracked_files,      \* StabilityChecker's map: per path, None or Some(entry)
    now,                \* the clock, in seconds
    loopAt,             \* the time run_loop last entered its select!
    file_rx,            \* the channel of detected files, oldest first
    ready_rx,           \* the channel of ready paths, oldest first
    fsEvents,           \* the number of file system changes so far
    emitsInWindow,      \* history: per path, ready events since its size changed
    lastEmit,           \* history: the ready events sent by the last step
    lastTrack,          \* history: the call of track made by the last step
    obsRun              \* history: per tracked path, the run of equal observed sizes

trackerVars == <<stability_duration, poll_interval, watching, fsize, tracked_files, now,
                 loopAt, file_rx, ready_rx, fsEvents, emitsInWindow, lastEmit,
                 lastTrack, obsRun>>

\* The audio track decision engine (src/src/media/audio.rs).
VARIABLES
    streams,    \* the audio streams of the probe result
    config,     \* the profile's AudioConfig
    decisions   \* None, or Some(the decisions process_audio_streams returned)

engineVars == <<streams, config, decisions>>

\* The configuration in memory and its hot reload (src/src/config/hot_reload.rs).
VARIABLES
    shared_config, \* the AppConfig behind Arc<RwLock<..>>, field by field
    config_file,   \* the configuration file on disk
    cfg_events,    \* the number of Modify events waiting in the watcher's channel
    cpc,           \* the position of ConfigWatcher::handle_changes
    new_config,    \* the value load_and_validate returned to try_reload
    wlocked,       \* the write half of the RwLock is held
    rlocked,       \* the reader holds the read half of the RwLock
    rdpc,          \* the position of the reader
    rd_global,     \* the part of the configuration the reader has read so far
    seen,          \* None, or Some(the configuration the reader observed last)
    reload_rx,     \* the channel of ConfigReloadEvents, oldest first
    edits,         \* the number of edits of the file so far
    cfgBefore      \* history: shared_config when the last try_reload began

reloadVars == <<shared_config, config_file, cfg_events, cpc, new_config,
                wlocked, rlocked, rdpc, rd_global, seen, reload_rx, edits,
                cfgBefore>>

\* The progress events of one job (src/src/encoder/worker.rs,
\* run_encode_pipeline; src/src/encoder/av1an.rs, encode).
VARIABLES
    ppc,            \* the worker's position in run_encode_pipeline
    child,          \* the av1an process: "none", "running" or "exited"
    lines,          \* the number of progress lines av1an has printed
    lastPercent,    \* the percent of the last progress line av1an printed
    stderr_pipe,    \* the lines av1an printed that the reader has not read
    av1an_rx,       \* the channel from the stderr reader to the forwarding task
    progress_rx     \* the percents sent on the worker's progress channel, in order

progressVars == <<ppc, child, lines, lastPercent, stderr_pipe, av1an_rx,
                  progress_rx>>

\* The start of the folder watchers (src/src/watcher/manager.rs, start).
VARIABLES
    start_pc,         \* the position of WatcherManager::start
    profile_idx,      \* the index of the profile start is working on
    watchers,         \* the profiles that have a folder watcher
    scanned,          \* the profiles whose existing files were scanned
    subscription,     \* for each profile, what FolderWatcher::new and start do
    process_existing  \* the flag of the run command

startVars == <<start_pc, profile_idx, watchers, scanned, subscription,
               process_existing>>

\* The subtitles of one job (src/src/media/subtitle.rs and the subtitle
\* phases of run_encode_pipeline).
VARIABLES
    sub_streams,     \* the subtitle streams of the probed file, in stream order
    sub_config,      \* the SubtitleConfig of the job's profile
    sub_decisions,   \* None, or Some(the result of process_subtitle_streams)
    extracted_subs,  \* None, or Some(the result of extract_subtitles)
    burned,          \* None, or Some(the set of stream indexes burned in)
    muxed            \* None, or Some(the stream indexes given to mkvmerge)

subtitleVars == <<sub_streams, sub_config, sub_decisions, extracted_subs,
                  burned, muxed>>

\* One job's calls of process_job and its directories under the OS temp root
\* (src/src/encoder/worker.rs, process_job; src/src/encoder/av1an.rs, encode).
VARIABLES
    pj_pc,           \* the position of process_job: "idle" outside a call
    temp_dir,        \* encode_<job id>: None, or Some(the files in it)
    av1an_temp_dirs, \* the number of av1an_<uuid> directories that exist
    pj_result,       \* None, or Some(what the last call returned)
    has_burn_in_sub, \* is there an extracted subtitle to burn in
    pj_calls         \* the number of calls of process_job so far

tempVars == <<pj_pc, temp_dir, av1an_temp_dirs, pj_result, has_burn_in_sub,
              pj_calls>>

\* The intake loop and the ready channel by numbers: how many files are
\* tracked, ready and in the channel (src/src/watcher/manager.rs, run_loop;
\* src/src/watcher/stability.rs, check_all).
VARIABLES
    loop_pc,       \* the position of run_loop: "select" or "check_all"
    stable_count,  \* the tracked files whose window has elapsed at the next tick
    to_send,       \* the paths of ready_files that check_all has not sent yet
    ready_len,     \* the number of paths in the ready channel
    files_seen,    \* the number of files the tracker has been given so far
    ready_handled  \* the number of ready paths the loop has received so far

channelVars == <<loop_pc, stable_count, to_send, ready_len, files_seen,
                 ready_handled>>

\* What enqueue_file has done with the ready paths (src/src/watcher/manager.rs).
VARIABLES
    enqueued_files \* the paths for which a job was appended to the pending list

enqueueVars == <<enqueued_files>>

\* The watched folder and the files of the pipeline
\* (src/src/watcher/folder.rs, src/src/watcher/manager.rs, enqueue_file).
VARIABLES
    profile,        \* the one profile of the configuration
    fs_events,      \* the files with a Create event the watcher has not handled
    detected_files, \* the files process_event has sent on and enqueue_file awaits
    pending_jobs,   \* the jobs enqueue_file has appended, oldest first
    written_files,  \* the output files that completed jobs have written
    arrived,        \* the number of files written into the folders so far
    completed_jobs  \* the number of jobs completed so far

folderVars == <<profile, fs_events, detected_files, pending_jobs, written_files,
                arrived, completed_jobs>>

\* The state of the components that do not use the store.
nonQueueVars ==
    <<trackerVars, engineVars, reloadVars, progressVars, startVars,
      subtitleVars,
      tempVars,
      channelVars,
      enqueueVars,
      folderVars>>

storeVars == <<queue, processing, dead, jobs>>
workerVars == <<wpc, wid, wjob>>
watcherVars == <<epc, nextId>>
opVars == <<opc, oid, ojob, ores, olen, opCalls, oInDlq>>
histVars == <<starts, requeued, hist, qtag, popped, enqEmpty>>
vars == <<storeVars, max_attempts, workerVars, watcherVars, opVars, histVars,
          lastTrans, nonQueueVars>>

Range(s) == {s[i] : i \in 1..Len(s)}

\* Mutant: the push goes to the head of the list.
rpush_at_head(list, value) == <<value>> \o list

\* The store's list commands on the value of one key.
rpush(list, value) == Append(list, value)
lpush(list, value) == <<value>> \o list

\* LREM key 1 value: removes the first occurrence of value, if any.
RECURSIVE lrem(_, _)
lrem(list, value) ==
    IF list = <<>> THEN <<>>
    ELSE IF Head(list) = value THEN Tail(list)
    ELSE <<Head(list)>> \o lrem(Tail(list), value)

\* A status change of a job object: from -> to, with the attempt count after it.
Trans(id, from, to, att) == [id |-> id, from |-> from, to |-> to, att |-> att]

\* The tracker before WatcherManager::start: nothing tracked, both channels
\* empty, no file in the watched folder.
TrackerIdle ==
    /\ stability_duration = 1
    /\ poll_interval = 1
    /\ watching = [p \in Paths |-> {"movies"}]
    /\ fsize = [p \in Paths |-> None]
    /\ tracked_files = [p \in Paths |-> None]
    /\ now = 0
    /\ loopAt = 0
    /\ file_rx = <<>>
    /\ ready_rx = <<>>
    /\ fsEvents = 0
    /\ emitsInWindow = [p \in Paths |-> 0]
    /\ lastEmit = <<>>
    /\ lastTrack = None
    /\ obsRun = [p \in Paths |-> None]

\* The configuration file as it is at startup, loaded and validated.
StartupFile == [version |-> 0, kind |-> "valid"]

\* run_pipeline: the configuration loaded at startup, and the ConfigWatcher
\* waiting for the first event.
ReloadInit ==
    /\ shared_config = [global |-> StartupFile, profiles |-> StartupFile]
    /\ config_file = StartupFile
    /\ cfg_events = 0
    /\ cpc = "recv"
    /\ new_config = StartupFile
    /\ wlocked = FALSE
    /\ rlocked = FALSE
    /\ rdpc = "idle"
    /\ rd_global = StartupFile
    /\ seen = None
    /\ reload_rx = <<>>
    /\ edits = 0
    /\ cfgBefore = [global |-> StartupFile, profiles |-> StartupFile]

\* The profiles of the configuration, in its order.
Profiles == 1..MaxProfiles

\* What subscribing a profile's folder does: it succeeds, the profile has an
\* invalid file pattern, or the folder cannot be watched.
Subscriptions == {"ok", "invalid_pattern", "watch_failed"}

\* WatcherManager::new: no watcher yet; every subscription will succeed.
StartIdle ==
    /\ start_pc = "new"
    /\ profile_idx = 1
    /\ watchers = {}
    /\ scanned = {}
    /\ subscription = [p \in Profiles |-> "ok"]
    /\ process_existing = FALSE

\* The subtitle phases before a job is analysed: a file without subtitles.
SubtitleIdle ==
    /\ sub_streams = <<>>
    /\ sub_config = [tracks |-> <<>>, image_subs |-> "Copy",
                     fallback |-> "Exclude"]
    /\ sub_decisions = None
    /\ extracted_subs = None
    /\ burned = None
    /\ muxed = None

\* The worker before run_encode_pipeline is called for a job.
ProgressInit ==
    /\ ppc = "analyzing"
    /\ child = "none"
    /\ lines = 0
    /\ lastPercent = 0
    /\ stderr_pipe = <<>>
    /\ av1an_rx = <<>>
    /\ progress_rx = <<>>

\* The decision engine before a job is analysed.
EngineIdle ==
    /\ streams = <<>>
    /\ config = [rules |-> <<>>, fallback |-> "Exclude",
                 max_tracks_per_language |-> None]
    /\ decisions = None

\* The store and its three clients at startup.
\* The worker before its first job: no call of process_job, no directory.
TempIdle ==
    /\ pj_pc = "idle"
    /\ temp_dir = None
    /\ av1an_temp_dirs = 0
    /\ pj_result = None
    /\ has_burn_in_sub = FALSE
    /\ pj_calls = 0

\* The intake loop in its select!, with nothing tracked, and an empty channel.
ChannelIdle ==
    /\ loop_pc = "select"
    /\ stable_count = 0
    /\ to_send = 0
    /\ ready_len = 0
    /\ files_seen = 0
    /\ ready_handled = 0

\* No file has been enqueued.
EnqueueIdle == enqueued_files = {}

\* A profile that reads /in and writes /out, and no file yet.
FolderIdle ==
    /\ profile = [input_path |-> <<"in">>, output_path |-> <<"out">>,
                  recursive |-> TRUE, structure |-> "Mirror",
                  filename |-> "Preserve", suffix |-> <<>>]
    /\ fs_events = {}
    /\ detected_files = {}
    /\ pending_jobs = <<>>
    /\ written_files = {}
    /\ arrived = 0
    /\ completed_jobs = 0

QueueInit ==
    /\ queue = <<>>
    /\ processing = {}
    /\ dead = <<>>
    /\ jobs = [id \in JobIds |-> None]
    /\ max_attempts \in 0..MaxAttemptsCap
    /\ wpc = "dequeue"
    /\ wid = 0
    /\ wjob = None
    /\ epc = "set"
    /\ nextId = 1
    /\ opc = "idle"
    /\ oid = 0
    /\ ojob = None
    /\ ores = "none"
    /\ olen = 0
    /\ opCalls = 0
    /\ oInDlq = FALSE
    /\ starts = [id \in JobIds |-> 0]
    /\ requeued = [id \in JobIds |-> 0]
    /\ hist = [id \in JobIds |-> <<>>]
    /\ qtag = <<>>
    /\ popped = <<>>
    /\ enqEmpty = [id \in JobIds |-> FALSE]
    /\ lastTrans = <<>>

Init ==
    /\ QueueInit
    /\ TrackerIdle /\ EngineIdle /\ ReloadInit /\ ProgressInit /\ StartIdle
    /\ SubtitleIdle
    /\ TempIdle
    /\ ChannelIdle
    /\ EnqueueIdle
    /\ FolderIdle

(***************************************************************************)
(* QueueManager (src/src/queue/redis.rs), one definition per store command.*)
(***************************************************************************)
\* update_job: SET encode:job:<id> to the serialized job.
update_job(job) ==
    /\ jobs' = [jobs EXCEPT ![job.id] = Some(to_string(job))]
    /\ hist' = [hist EXCEPT ![job.id] = Append(@, StatusToJson(job.status))]

\* Mutant: the job is marked started as it is read.
get_job_started(id) ==
    IF jobs[id] = None THEN None ELSE Some(start(from_str(jobs[id][1])))

\* get_job: GET encode:job:<id> and deserialize it.
get_job(id) == IF jobs[id] = None THEN None ELSE Some(from_str(jobs[id][1]))

\* enqueue, first command: SET the record of a new job.
enqueue_set ==
    /\ epc = "set"
    /\ nextId <= MaxJobs
    /\ update_job(NewJob(nextId))
    /\ epc' = "rpush"
    /\ lastTrans' = <<>>
    /\ UNCHANGED nonQueueVars
    /\ UNCHANGED <<queue, processing, dead, max_attempts, workerVars, nextId,
                   opVars, starts, requeued, qtag, popped, enqEmpty>>

\* enqueue, second command: RPUSH the id to the pending list.
enqueue_rpush ==
    /\ epc = "rpush"
    /\ queue' = rpush(queue, nextId)
    /\ qtag' = rpush(qtag, "enqueue")
    /\ enqEmpty' = [enqEmpty EXCEPT ![nextId] = (queue = <<>>)]
    /\ nextId' = nextId + 1
    /\ epc' = "set"
    /\ lastTrans' = <<>>
    /\ UNCHANGED nonQueueVars
    /\ UNCHANGED <<processing, dead, jobs, max_attempts, workerVars, opVars,
                   starts, requeued, hist, popped>>

\* dequeue, first command: LPOP the pending list; on an empty list dequeue
\* returns Ok(None) and run() sleeps and dequeues again.
dequeue_lpop ==
    /\ wpc = "dequeue"
    /\ IF queue = <<>>
       THEN /\ wpc' = "dequeue"
            /\ UNCHANGED <<queue, qtag, wid, popped>>
       ELSE /\ wid' = Head(queue)
            /\ queue' = Tail(queue)
            /\ qtag' = Tail(qtag)
            /\ popped' = IF Head(qtag) = "enqueue"
                         THEN Append(popped, Head(queue)) ELSE popped
            /\ wpc' = "sadd"
    /\ lastTrans' = <<>>
    /\ UNCHANGED nonQueueVars
    /\ UNCHANGED <<processing, dead, jobs, max_attempts, wjob, watcherVars,
                   opVars, starts, requeued, hist, enqEmpty>>

\* dequeue, second command: SADD the id to the in-flight set.
dequeue_sadd ==
    /\ wpc = "sadd"
    /\ processing' = processing \cup {wid}
    /\ wpc' = "get"
    /\ lastTrans' = <<>>
    /\ UNCHANGED nonQueueVars
    /\ UNCHANGED <<queue, dead, jobs, max_attempts, wid, wjob, watcherVars,
                   opVars, histVars>>

\* dequeue, third command: get_job; on Ok(None) run() sleeps and dequeues again.
dequeue_get ==
    /\ wpc = "get"
    /\ wjob' = get_job(wid)
    /\ wpc' = IF get_job(wid) = None THEN "dequeue" ELSE "process"
    /\ wid' = 0
    /\ lastTrans' = <<>>
    /\ UNCHANGED nonQueueVars
    /\ UNCHANGED <<storeVars, max_attempts, watcherVars, opVars, histVars>>

(***************************************************************************)
(* EncodeWorker (src/src/encoder/worker.rs) and DeadLetterHandler          *)
(* (src/src/queue/dead_letter.rs).                                         *)
(***************************************************************************)
\* process_job: job.start(), then update_job with its result ignored.
process_job_start ==
    /\ wpc = "process"
    /\ LET job == wjob[1]
           started == start(job)
       IN /\ wjob' = Some(started)
          /\ update_job(started)
          /\ starts' = [starts EXCEPT ![job.id] = @ + 1]
          /\ lastTrans' = <<Trans(job.id, job.status, started.status,
                                  started.attempt_count)>>
    /\ wpc' = "pipeline"
    /\ UNCHANGED nonQueueVars
    /\ UNCHANGED <<queue, processing, dead, max_attempts, wid, watcherVars,
                   opVars, requeued, qtag, popped, enqEmpty>>

\* process_job returns Ok(()), the last act of run_encode_pipeline being
\* job.complete(metadata); run() calls complete_job, first command: update_job.
complete_job_set ==
    /\ wpc = "pipeline"
    /\ LET job == wjob[1]
           done == complete(job)
       IN /\ wjob' = Some(done)
          /\ update_job(done)
          /\ lastTrans' = <<Trans(job.id, job.status, done.status,
                                  done.attempt_count)>>
    /\ wpc' = "complete_srem"
    /\ UNCHANGED nonQueueVars
    /\ UNCHANGED <<queue, processing, dead, max_attempts, wid, watcherVars,
                   opVars, starts, requeued, qtag, popped, enqEmpty>>

\* Mutant: complete_job leaves the id in the in-flight set.
complete_job_srem_skipped ==
    /\ wpc = "complete_srem"
    /\ wpc' = "dequeue"
    /\ wjob' = None
    /\ lastTrans' = <<>>
    /\ UNCHANGED nonQueueVars
    /\ UNCHANGED <<storeVars, max_attempts, wid, watcherVars, opVars,
                   histVars>>

\* complete_job, second command: SREM from the in-flight set.
complete_job_srem ==
    /\ wpc = "complete_srem"
    /\ processing' = processing \ {wjob[1].id}
    /\ wpc' = "dequeue"
    /\ wjob' = None
    /\ lastTrans' = <<>>
    /\ UNCHANGED nonQueueVars
    /\ UNCHANGED <<queue, dead, jobs, max_attempts, wid, watcherVars, opVars,
                   histVars>>

\* Mutant: one attempt too many before the dead letter.
should_retry_once_more(job) == job.attempt_count <= max_attempts

\* DeadLetterHandler::handle_failure: the test that chooses retry over dead letter.
should_retry(job) == job.attempt_count < max_attempts

\* process_job returns Err (the profile lookup, the temp directory or a phase of
\* run_encode_pipeline failed); run() calls handle_failure and so
\* DeadLetterHandler::handle_failure, here up to its first store command:
\* job.fail, then job.retry and retry_job's update_job, or job.dead_letter and
\* dead_letter's update_job.
handle_failure ==
    /\ wpc = "pipeline"
    /\ LET job == wjob[1]
           failed == fail(job, PipelineError)
           next == IF should_retry(failed)
                   THEN retry(failed)
                   ELSE dead_letter(failed,
                                    ExhaustedReason(max_attempts, PipelineError))
       IN /\ wjob' = Some(next)
          /\ update_job(next)
          /\ lastTrans' = <<Trans(job.id, job.status, failed.status,
                                  failed.attempt_count),
                            Trans(job.id, failed.status, next.status,
                                  next.attempt_count)>>
          /\ wpc' = IF should_retry(failed)
                    THEN "retry_srem" ELSE "dead_letter_srem"
    /\ UNCHANGED nonQueueVars
    /\ UNCHANGED <<queue, processing, dead, max_attempts, wid, watcherVars,
                   opVars, starts, requeued, qtag, popped, enqEmpty>>

\* Mutant: retry_job leaves the id in the in-flight set.
retry_job_srem_skipped ==
    /\ wpc = "retry_srem"
    /\ wpc' = "retry_lpush"
    /\ lastTrans' = <<>>
    /\ UNCHANGED nonQueueVars
    /\ UNCHANGED <<storeVars, max_attempts, wid, wjob, watcherVars, opVars,
                   histVars>>

\* retry_job, second command: SREM from the in-flight set.
retry_job_srem ==
    /\ wpc = "retry_srem"
    /\ processing' = processing \ {wjob[1].id}
    /\ wpc' = "retry_lpush"
    /\ lastTrans' = <<>>
    /\ UNCHANGED nonQueueVars
    /\ UNCHANGED <<queue, dead, jobs, max_attempts, wid, wjob, watcherVars,
                   opVars, histVars>>

\* retry_job, third command: LPUSH to the front of the pending list.
retry_job_lpush ==
    /\ wpc = "retry_lpush"
    /\ queue' = lpush(queue, wjob[1].id)
    /\ qtag' = lpush(qtag, "retry_job")
    /\ wpc' = "dequeue"
    /\ wjob' = None
    /\ lastTrans' = <<>>
    /\ UNCHANGED nonQueueVars
    /\ UNCHANGED <<processing, dead, jobs, max_attempts, wid, watcherVars,
                   opVars, starts, requeued, hist, popped, enqEmpty>>

\* dead_letter, second command: SREM from the in-flight set.
dead_letter_srem ==
    /\ wpc = "dead_letter_srem"
    /\ processing' = processing \ {wjob[1].id}
    /\ wpc' = "dead_letter_rpush"
    /\ lastTrans' = <<>>
    /\ UNCHANGED nonQueueVars
    /\ UNCHANGED <<queue, dead, jobs, max_attempts, wid, wjob, watcherVars,
                   opVars, histVars>>

\* dead_letter, third command: RPUSH to the dead-letter list.
dead_letter_rpush ==
    /\ wpc = "dead_letter_rpush"
    /\ dead' = rpush(dead, wjob[1].id)
    /\ wpc' = "dequeue"
    /\ wjob' = None
    /\ lastTrans' = <<>>
    /\ UNCHANGED nonQueueVars
    /\ UNCHANGED <<queue, processing, jobs, max_attempts, wid, watcherVars,
                   opVars, histVars>>

(***************************************************************************)
(* The operator's commands (src/src/lib.rs): retry-dead-letter <job-id>    *)
(* and queue-clear, each a process of its own next to the running pipeline.*)
(***************************************************************************)
\* retry_dead_letter, first command: LREM one occurrence; the reply is dropped.
retry_dead_letter_lrem(job_id) ==
    /\ opc = "idle"
    /\ opCalls < MaxOperatorCalls
    /\ opCalls' = opCalls + 1
    /\ oid' = job_id
    /\ oInDlq' = (job_id \in Range(dead))
    /\ dead' = lrem(dead, job_id)
    /\ ores' = "none"
    /\ olen' = 0
    /\ opc' = "rdl_get"
    /\ lastTrans' = <<>>
    /\ UNCHANGED nonQueueVars
    /\ UNCHANGED <<queue, processing, jobs, max_attempts, workerVars,
                   watcherVars, ojob, histVars>>

\* retry_dead_letter, second command: get_job; JobNotFound without a record.
retry_dead_letter_get ==
    /\ opc = "rdl_get"
    /\ ojob' = get_job(oid)
    /\ IF get_job(oid) = None
       THEN /\ opc' = "idle"
            /\ ores' = "JobNotFound"
            /\ oid' = 0
            /\ oInDlq' = FALSE
       ELSE /\ opc' = "rdl_set"
            /\ UNCHANGED <<ores, oid, oInDlq>>
    /\ lastTrans' = <<>>
    /\ UNCHANGED nonQueueVars
    /\ UNCHANGED <<storeVars, max_attempts, workerVars, watcherVars, olen,
                   opCalls, histVars>>

\* retry_dead_letter, third command: job.retry() and update_job.
retry_dead_letter_set ==
    /\ opc = "rdl_set"
    /\ LET job == ojob[1]
           again == retry(job)
       IN /\ ojob' = Some(again)
          /\ update_job(again)
          /\ lastTrans' = <<Trans(job.id, job.status, again.status,
                                  again.attempt_count)>>
    /\ opc' = "rdl_rpush"
    /\ UNCHANGED nonQueueVars
    /\ UNCHANGED <<queue, processing, dead, max_attempts, workerVars,
                   watcherVars, oid, ores, olen, opCalls, oInDlq, starts,
                   requeued, qtag, popped, enqEmpty>>

\* retry_dead_letter, fourth command: RPUSH to the pending list; Ok(()).
retry_dead_letter_rpush ==
    /\ opc = "rdl_rpush"
    /\ queue' = rpush(queue, oid)
    /\ qtag' = rpush(qtag, "retry_dead_letter")
    /\ requeued' = [requeued EXCEPT ![oid] = @ + 1]
    /\ ores' = "Ok"
    /\ opc' = "idle"
    /\ ojob' = None
    /\ oid' = 0
    /\ oInDlq' = FALSE
    /\ lastTrans' = <<>>
    /\ UNCHANGED nonQueueVars
    /\ UNCHANGED <<processing, dead, jobs, max_attempts, workerVars,
                   watcherVars, olen, opCalls, starts, hist, popped, enqEmpty>>

\* clear_queue, first command: queue_length (LLEN).
clear_queue_llen ==
    /\ opc = "idle"
    /\ opCalls < MaxOperatorCalls
    /\ opCalls' = opCalls + 1
    /\ olen' = Len(queue)
    /\ ores' = "none"
    /\ opc' = "clear_del"
    /\ lastTrans' = <<>>
    /\ UNCHANGED nonQueueVars
    /\ UNCHANGED <<storeVars, max_attempts, workerVars, watcherVars, oid,
                   ojob, oInDlq, histVars>>

\* clear_queue, second command: DEL the pending list; Ok(len).
clear_queue_del ==
    /\ opc = "clear_del"
    /\ queue' = <<>>
    /\ qtag' = <<>>
    /\ ores' = "Ok"
    /\ opc' = "idle"
    /\ lastTrans' = <<>>
    /\ UNCHANGED nonQueueVars
    /\ UNCHANGED <<processing, dead, jobs, max_attempts, workerVars,
                   watcherVars, oid, ojob, olen, opCalls, oInDlq, starts,
                   requeued, hist, popped, enqEmpty>>

(***************************************************************************)
(* The system: the intake loop, the single worker and the operator.        *)
(***************************************************************************)
Intake == enqueue_set \/ enqueue_rpush

Worker ==
    \/ dequeue_lpop \/ dequeue_sadd \/ dequeue_get
    \/ process_job_start
    \/ complete_job_set \/ complete_job_srem
    \/ handle_failure
    \/ retry_job_srem \/ retry_job_lpush
    \/ dead_letter_srem \/ dead_letter_rpush

Operator ==
    \/ \E job_id \in JobIds : retry_dead_letter_lrem(job_id)
    \/ retry_dead_letter_get \/ retry_dead_letter_set
    \/ retry_dead_letter_rpush
    \/ clear_queue_llen \/ clear_queue_del

Next == Intake \/ Worker \/ Operator

Spec == Init /\ [][Next]_vars

TypeOK ==
    /\ queue \in Seq(JobIds)
    /\ processing \subseteq JobIds
    /\ dead \in Seq(JobIds)
    /\ Len(qtag) = Len(queue)

(***************************************************************************)
(* Properties.                                                             *)
(***************************************************************************)
Record(id) == from_str(jobs[id][1])
HasRecord(id) == jobs[id] # None

InPending(id) == id \in Range(queue)
InFlight(id) == id \in processing
InDeadLetter(id) == id \in Range(dead)

Collections(id) ==
    (IF InPending(id) THEN 1 ELSE 0) + (IF InFlight(id) THEN 1 ELSE 0)
    + (IF InDeadLetter(id) THEN 1 ELSE 0)

\* C1: in every reachable state, the states between the store commands of one
\* call included, each job id is in at most one of the pending list, the
\* in-flight set and the dead-letter list.
C1_AtMostOneCollection == \A id \in JobIds : Collections(id) <= 1

\* The status changes the data model allows.
AllowedTransition(t) ==
    \/ t.from = "Pending" /\ t.to = "InProgress"
    \/ t.from = "InProgress" /\ t.to = "Completed"
    \/ t.from = "InProgress" /\ t.to = "Failed"
    \/ t.from = "Failed" /\ t.to = "Pending" /\ t.att < max_attempts
    \/ t.from = "Failed" /\ t.to = "DeadLetter" /\ t.att >= max_attempts
    \/ t.from = "DeadLetter" /\ t.to = "Pending"

\* C2: every status change of a job is one of the allowed transitions.
C2_OnlyAllowedTransitions ==
    \A i \in 1..Len(lastTrans) : AllowedTransition(lastTrans[i])

\* C3: for every job, at every point, attempt_count (of its record and of the
\* worker's copy once started) equals the number of times it entered in_flight.
C3_AttemptCountIsStarts ==
    /\ \A id \in JobIds :
           HasRecord(id) => Record(id).attempt_count = starts[id]
    /\ (wjob # None /\ wpc # "process") =>
           wjob[1].attempt_count = starts[wjob[1].id]

\* A step of a retry_dead_letter call.
RetryDeadLetterStep == opc \in {"rdl_get", "rdl_set", "rdl_rpush"} /\ opc' # opc

\* C10: retry_dead_letter(id) for an id that is not in the dead-letter list
\* fails with JobNotFound and leaves the pending list, the in-flight set, the
\* dead-letter list and the job record unchanged.
C10_NotInDeadLetterIsRejected ==
    [][(RetryDeadLetterStep /\ ~oInDlq) =>
          /\ ores' # "Ok"
          /\ (opc' = "idle" => ores' = "JobNotFound")
          /\ UNCHANGED <<queue, processing, dead, jobs>>]_vars

\* The step on which a retry_dead_letter call returns Ok(()).
RetryDeadLetterReturnsOk == opc = "rdl_rpush" /\ opc' = "idle" /\ ores' = "Ok"

\* C9: for an id that is in the dead-letter list, when retry_dead_letter(id)
\* returns successfully the id is at the tail of the pending list, its record
\* has status pending and no error message, and the id is no longer in the
\* dead-letter list.
C9_RetryDeadLetterMoves ==
    [][(RetryDeadLetterReturnsOk /\ oInDlq) =>
          /\ queue' # <<>>
          /\ queue'[Len(queue')] = oid
          /\ jobs'[oid] # None
          /\ from_str(jobs'[oid][1]).status = "Pending"
          /\ from_str(jobs'[oid][1]).error_message = None
          /\ oid \notin Range(dead')]_vars

\* C4 as stated: whenever a job's status becomes completed its attempt_count
\* is at most max_attempts.
C4_CompletedWithinMaxAttempts ==
    \A i \in 1..Len(lastTrans) :
        lastTrans[i].to = "Completed" => lastTrans[i].att <= max_attempts

\* C4 as amended: with max_attempts >= 1, whenever a job's status becomes
\* completed its attempt_count is at most max_attempts plus the number of
\* times retry_dead_letter has re-queued that job.
C4_CompletedWithinMaxPlusRequeues ==
    max_attempts >= 1 =>
        \A i \in 1..Len(lastTrans) :
            lastTrans[i].to = "Completed" =>
                lastTrans[i].att <= max_attempts + requeued[lastTrans[i].id]

\* A job completes on the attempt after an operator's retry_dead_letter, with
\* more attempts than max_attempts.
C4_Witness ==
    /\ max_attempts >= 1
    /\ \E i \in 1..Len(lastTrans) :
           /\ lastTrans[i].to = "Completed"
           /\ requeued[lastTrans[i].id] >= 1
           /\ lastTrans[i].att = max_attempts + requeued[lastTrans[i].id]

\* The job EncodeJob::new made for an id, as the worker's start() leaves it.
StartedNewJob(id) ==
    [NewJob(id) EXCEPT !.status = "InProgress", !.started_at = TRUE,
                       !.attempt_count = 1]

\* dequeue has just returned the job that was enqueued on an empty pending list.
DequeuedAfterEnqueueOnEmpty ==
    /\ wpc = "process"
    /\ enqEmpty[wjob[1].id]
    /\ starts[wjob[1].id] = 0

\* C5 as stated: enqueue(j) on an empty pending list followed by dequeue()
\* returns j with status in_flight, started_at set and attempt_count one higher.
C5_DequeueReturnsStartedJob ==
    DequeuedAfterEnqueueOnEmpty => wjob[1] = StartedNewJob(wjob[1].id)

\* C5 as amended: enqueue(j) on an empty pending list followed by dequeue()
\* returns a job equal to j (status pending, started_at unset, attempt_count
\* unchanged); it is the worker's process_job that then sets status in_flight,
\* sets started_at and raises attempt_count by one.
C5_DequeueReturnsEnqueuedJob ==
    /\ DequeuedAfterEnqueueOnEmpty => wjob[1] = NewJob(wjob[1].id)
    /\ (wpc = "pipeline" /\ enqEmpty[wjob[1].id] /\ starts[wjob[1].id] = 1) =>
           wjob[1] = StartedNewJob(wjob[1].id)

\* The worker has started the job it dequeued after an enqueue on an empty list.
C5_Witness ==
    /\ wpc = "pipeline"
    /\ enqEmpty[wjob[1].id]
    /\ starts[wjob[1].id] = 1
    /\ wjob[1] = StartedNewJob(wjob[1].id)

\* C6: jobs pushed by enqueue are popped in the order they were enqueued (ids
\* are given in enqueue order), and an entry pushed by retry_job is at the head
\* of the pending list until it is popped, so ahead of every older entry.
C6_FifoAndRetryFirst ==
    /\ \A i, k \in 1..Len(popped) : i < k => popped[i] < popped[k]
    /\ \A i \in 1..Len(qtag) : qtag[i] = "retry_job" => i = 1

\* Two enqueued jobs have been popped and a retried job waits ahead of another.
C6_Witness ==
    /\ Len(popped) >= 2
    /\ Len(queue) >= 2
    /\ qtag[1] = "retry_job"

(***************************************************************************)
(* Scenario: the pipeline fails on every attempt and no operator command   *)
(* runs.  The worker task is always scheduled again, the intake loop too.  *)
(***************************************************************************)
WorkerFailing ==
    \/ dequeue_lpop \/ dequeue_sadd \/ dequeue_get
    \/ process_job_start
    \/ handle_failure
    \/ retry_job_srem \/ retry_job_lpush
    \/ dead_letter_srem \/ dead_letter_rpush

NextExhaust == Intake \/ WorkerFailing

SpecExhaust ==
    Init /\ [][NextExhaust]_vars /\ WF_vars(WorkerFailing) /\ WF_vars(Intake)

DeadLettered(id) ==
    /\ HasRecord(id)
    /\ Record(id).status = "DeadLetter"
    /\ Record(id).error_message # None
    /\ StartsWith(Record(id).error_message[1], Exhausted(max_attempts))
    /\ Record(id).attempt_count = max_attempts
    /\ starts[id] = max_attempts

Settled(id) ==
    /\ DeadLettered(id)
    /\ InDeadLetter(id) /\ ~InPending(id) /\ ~InFlight(id)

\* C7: with max_attempts = N >= 1 and a pipeline that fails on every attempt, an
\* enqueued job is attempted exactly N times and then has status dead_letter
\* and an error message beginning "Exhausted N attempts."; its id ends in the
\* dead-letter list, in neither the pending list nor the in-flight set, and
\* stays so.
C7_ExhaustedJobIsDeadLettered ==
    /\ [](max_attempts >= 1 =>
            \A id \in JobIds :
                /\ starts[id] <= max_attempts
                /\ (HasRecord(id) /\ Record(id).status = "DeadLetter")
                       => DeadLettered(id))
    /\ \A id \in JobIds :
           (max_attempts >= 1 /\ InPending(id)) ~> Settled(id)
    /\ [][\A id \in JobIds :
              (max_attempts >= 1 /\ Settled(id)) => Settled(id)']_vars

\* A job has been attempted twice and sits in the dead-letter list.
C7_Witness == max_attempts = 2 /\ \E id \in JobIds : Settled(id)

(***************************************************************************)
(* Scenario: the intake loop and the worker, no operator command.          *)
(***************************************************************************)
NextPipeline == Intake \/ Worker

SpecPipeline == Init /\ [][NextPipeline]_vars

\* C8: with max_attempts = 2 and a pipeline that fails on the first attempt and
\* succeeds on the second, the statuses written to the job's record are
\* pending, in_flight, failed, pending, in_flight, completed; the failure step
\* writes the record with the error message set before the job is re-queued;
\* the final record has attempt_count = 2 and no error message.
C8_PersistedStatusSequence ==
    max_attempts = 2 =>
        \A id \in JobIds :
            (HasRecord(id) /\ Record(id).status = "Completed"
                 /\ starts[id] = 2) =>
                /\ hist[id] = <<"pending", "in_progress", "failed", "pending",
                                "in_progress", "completed">>
                /\ Record(id).attempt_count = 2
                /\ Record(id).error_message = None

(***************************************************************************)
(* Scenario: store commands of the worker may fail (the connection to the  *)
(* store is lost for one command).  A failed command changes nothing in    *)
(* the store and returns Err to its caller.                                *)
(***************************************************************************)
\* run(): dequeue() returns Err, its LPOP, its SADD or its GET having failed;
\* run() logs, sleeps and dequeues again.
dequeue_failed ==
    /\ wpc \in {"dequeue", "sadd", "get"}
    /\ wpc' = "dequeue"
    /\ wid' = 0
    /\ lastTrans' = <<>>
    /\ UNCHANGED nonQueueVars
    /\ UNCHANGED <<storeVars, max_attempts, wjob, watcherVars, opVars,
                   histVars>>

\* process_job: job.start(), then update_job fails and .ok() drops the error.
process_job_start_failed ==
    /\ wpc = "process"
    /\ LET job == wjob[1]
           started == start(job)
       IN /\ wjob' = Some(started)
          /\ starts' = [starts EXCEPT ![job.id] = @ + 1]
          /\ lastTrans' = <<Trans(job.id, job.status, started.status,
                                  started.attempt_count)>>
    /\ wpc' = "pipeline"
    /\ UNCHANGED nonQueueVars
    /\ UNCHANGED <<storeVars, max_attempts, wid, watcherVars, opVars,
                   requeued, hist, qtag, popped, enqEmpty>>

\* run(): complete_job returns Err, its update_job or its SREM having failed;
\* the ? operator returns the error from run().
complete_job_failed ==
    /\ wpc \in {"pipeline", "complete_srem"}
    /\ IF wpc = "pipeline"
       THEN /\ wjob' = Some(complete(wjob[1]))
            /\ lastTrans' = <<Trans(wjob[1].id, wjob[1].status, "Completed",
                                    wjob[1].attempt_count)>>
       ELSE /\ lastTrans' = <<>>
            /\ UNCHANGED wjob
    /\ wpc' = "terminated"
    /\ UNCHANGED nonQueueVars
    /\ UNCHANGED <<storeVars, max_attempts, wid, watcherVars, opVars,
                   histVars>>

\* EncodeWorker::handle_failure: DeadLetterHandler::handle_failure returns Err,
\* a command of retry_job or of dead_letter having failed; the error is logged,
\* handle_failure returns Ok(()) and run() dequeues again.
handle_failure_failed ==
    /\ wpc \in {"pipeline", "retry_srem", "retry_lpush", "dead_letter_srem",
                "dead_letter_rpush"}
    /\ lastTrans' =
           IF wpc = "pipeline"
           THEN LET failed == fail(wjob[1], PipelineError)
                    next == IF should_retry(failed) THEN retry(failed)
                            ELSE dead_letter(failed,
                                     ExhaustedReason(max_attempts,
                                                     PipelineError))
                IN <<Trans(failed.id, wjob[1].status, failed.status,
                           failed.attempt_count),
                     Trans(failed.id, failed.status, next.status,
                           next.attempt_count)>>
           ELSE <<>>
    /\ wpc' = "dequeue"
    /\ wjob' = None
    /\ UNCHANGED nonQueueVars
    /\ UNCHANGED <<storeVars, max_attempts, wid, watcherVars, opVars,
                   histVars>>

WorkerStoreError ==
    \/ dequeue_failed
    \/ process_job_start_failed
    \/ complete_job_failed
    \/ handle_failure_failed

NextFaulty == Intake \/ Worker \/ WorkerStoreError

SpecFaulty == Init /\ [][NextFaulty]_vars

\* C11: the worker loop never terminates because of a job: whatever error a
\* phase of the job, the final complete_job call, a dequeue or a retry or
\* dead-letter store call returns, run() does not return; the worker goes on
\* to dequeue again.
C11_WorkerLoopNeverTerminates == wpc # "terminated"

\* The id of the job the worker owns: popped by dequeue and not yet handed back
\* by the SREM of complete_job, retry_job or dead_letter.
WorkerOwns ==
    IF wpc \in {"sadd", "get"} THEN {wid}
    ELSE IF wpc \in {"process", "pipeline", "complete_srem", "retry_srem",
                     "dead_letter_srem"}
         THEN {wjob[1].id}
         ELSE {}

metadata_len_or_0(path) == IF fsize[path] = None THEN 0 ELSE fsize[path][1]

\* Mutant: a path that is tracked already gets a new entry.
track_again(path, profile_name) ==
    [tracked_files EXCEPT
         ![path] = Some([last_size |-> metadata_len_or_0(path),
                         stable_since |-> None,
                         profile_name |-> profile_name])]

\* StabilityChecker::track: a no-op on a tracked path, else a new entry.
track(path, profile_name) ==
    IF tracked_files[path] # None THEN tracked_files
    ELSE [tracked_files EXCEPT
              ![path] = Some([last_size |-> metadata_len_or_0(path),
                              stable_since |-> None,
                              profile_name |-> profile_name])]

\* Mutant: a size of zero counts as stable too.
size_is_stable_or_zero(current_size, tracked) ==
    current_size = tracked.last_size

\* check_all: the test "size is stable".
size_is_stable(current_size, tracked) ==
    current_size = tracked.last_size /\ current_size > 0

\* check_all: stable_since after the is_none() branch.
stable_since_of(tracked) ==
    IF tracked.stable_since = None THEN now ELSE tracked.stable_since[1]

\* Mutant: the window is one second short.
is_ready_early(tracked) ==
    now - stable_since_of(tracked) >= stability_duration - 1

\* check_all: stable_since.elapsed() >= self.stability_duration
is_ready(tracked) == now - stable_since_of(tracked) >= stability_duration

\* check_all, the body of the loop for one entry whose metadata was read.
check_entry(current_size, tracked) ==
    IF size_is_stable(current_size, tracked)
    THEN [tracked EXCEPT !.stable_since = Some(stable_since_of(tracked))]
    ELSE [tracked EXCEPT !.last_size = current_size, !.stable_since = None]

\* Mutant: an entry whose file cannot be stat'ed is dropped.
entry_dropped_after_failed_stat(p) == None

\* check_all, the Err arm of the metadata call: a warning and continue, the
\* entry stays as it is.
entry_after_failed_stat(p) == tracked_files[p]

\* check_all: the paths pushed to ready_files.
ready_files ==
    {p \in Paths :
        /\ tracked_files[p] # None
        /\ fsize[p] # None
        /\ size_is_stable(fsize[p][1], tracked_files[p][1])
        /\ is_ready(tracked_files[p][1])}

\* The orders in which a HashMap may yield the paths of a set.
Orders(S) ==
    {o \in [1..Cardinality(S) -> S] :
        \A i, k \in 1..Cardinality(S) : i # k => o[i] # o[k]}

\* The run of equal sizes observed for a tracked path, after one more tick.
ObsAfter(p) ==
    IF obsRun[p] # None /\ obsRun[p][1].size = fsize[p][1] THEN obsRun[p]
    ELSE Some([size |-> fsize[p][1], since |-> now,
               restarted |-> tracked_files[p][1].stable_since # None])

\* The ready event of a path, with what check_all saw when it sent it.
EmitRecord(p) ==
    [path |-> p, size |-> fsize[p][1],
     last_size |-> tracked_files[p][1].last_size,
     stable_since |-> stable_since_of(tracked_files[p][1]),
     obs_since |-> ObsAfter(p)[1].since,
     restarted |-> ObsAfter(p)[1].restarted,
     at |-> now]

\* run_loop, third branch: the sleep of poll_interval ends and check_all runs.
\* select! takes a branch that is ready when it polls: a message that was
\* waiting before the sleep ended is received first.
check_all ==
    /\ now >= loopAt + poll_interval
    /\ ready_rx = <<>>
    /\ \A i \in 1..Len(file_rx) : file_rx[i].at >= loopAt + poll_interval
    /\ \E order \in Orders(ready_files) :
           /\ ready_rx' = ready_rx \o order
           /\ lastEmit' = [i \in 1..Len(order) |-> EmitRecord(order[i])]
    /\ lastTrack' = None
    /\ tracked_files' =
           [p \in Paths |->
               IF tracked_files[p] = None \/ p \in ready_files THEN None
               ELSE IF fsize[p] = None THEN entry_after_failed_stat(p)
               ELSE Some(check_entry(fsize[p][1], tracked_files[p][1]))]
    /\ obsRun' =
           [p \in Paths |->
               IF tracked_files[p] = None \/ p \in ready_files THEN None
               ELSE IF fsize[p] = None THEN obsRun[p]
               ELSE ObsAfter(p)]
    /\ emitsInWindow' =
           [p \in Paths |->
               IF p \in ready_files THEN emitsInWindow[p] + 1
               ELSE emitsInWindow[p]]
    /\ loopAt' = now
    /\ UNCHANGED <<stability_duration, poll_interval, watching,
                   fsize, now, file_rx,
                   fsEvents>>
    /\ UNCHANGED <<storeVars, max_attempts, workerVars, watcherVars, opVars,
                   histVars, lastTrans, engineVars, reloadVars,
                   progressVars, startVars,
                   subtitleVars,
                   tempVars,
                   channelVars,
                   enqueueVars,
                   folderVars>>

\* run_loop, first branch: a detected file is received and tracked.
recv_detected ==
    /\ file_rx # <<>>
    /\ tracked_files' = track(Head(file_rx).path, Head(file_rx).profile_name)
    /\ obsRun' = IF tracked_files[Head(file_rx).path] = None
                 THEN [obsRun EXCEPT ![Head(file_rx).path] = None] ELSE obsRun
    /\ file_rx' = Tail(file_rx)
    /\ loopAt' = now
    /\ lastEmit' = <<>>
    /\ lastTrack' = Some([path |-> Head(file_rx).path,
                          profile_name |-> Head(file_rx).profile_name,
                          before |-> tracked_files])
    /\ UNCHANGED <<stability_duration, poll_interval, watching,
                   fsize, now, ready_rx,
                   fsEvents, emitsInWindow>>
    /\ UNCHANGED <<storeVars, max_attempts, workerVars, watcherVars, opVars,
                   histVars, lastTrans, engineVars, reloadVars,
                   progressVars, startVars,
                   subtitleVars,
                   tempVars,
                   channelVars,
                   enqueueVars,
                   folderVars>>

\* run_loop, second branch: a ready path is received and handed to
\* enqueue_file (the store's side of it is enqueue_set and enqueue_rpush).
recv_ready ==
    /\ ready_rx # <<>>
    /\ ready_rx' = Tail(ready_rx)
    /\ loopAt' = now
    /\ lastEmit' = <<>>
    /\ lastTrack' = None
    /\ UNCHANGED <<stability_duration, poll_interval, watching,
                   fsize, tracked_files,
                   now, file_rx, fsEvents, emitsInWindow, obsRun>>
    /\ UNCHANGED <<storeVars, max_attempts, workerVars, watcherVars, opVars,
                   histVars, lastTrans, engineVars, reloadVars,
                   progressVars, startVars,
                   subtitleVars,
                   tempVars,
                   channelVars,
                   enqueueVars,
                   folderVars>>

\* The names of the profiles of the configuration.
ProfileNames == {"movies", "tv"}

\* FolderWatcher::process_event: the DetectedFile sent for a path (the time of
\* the send is kept with it).
DetectedFile(path, profile_name) ==
    [path |-> path, profile_name |-> profile_name, at |-> now]

\* A writer creates the file or changes its size; the FolderWatcher gets a
\* Create or Modify event and process_event sends the path to file_tx.
FileWrite(path, size) ==
    /\ fsEvents < MaxFsEvents
    /\ fsize[path] # Some(size)
    /\ fsize' = [fsize EXCEPT ![path] = Some(size)]
    /\ \E profile_name \in watching[path] :
           file_rx' = Append(file_rx, DetectedFile(path, profile_name))
    /\ emitsInWindow' = [emitsInWindow EXCEPT ![path] = 0]
    /\ fsEvents' = fsEvents + 1
    /\ lastEmit' = <<>>
    /\ lastTrack' = None
    /\ UNCHANGED <<stability_duration, poll_interval, watching,
                   tracked_files, now,
                   loopAt, ready_rx, obsRun>>
    /\ UNCHANGED <<storeVars, max_attempts, workerVars, watcherVars, opVars,
                   histVars, lastTrans, engineVars, reloadVars,
                   progressVars, startVars,
                   subtitleVars,
                   tempVars,
                   channelVars,
                   enqueueVars,
                   folderVars>>

\* The file's metadata changes (its times, its mode) and its size does not:
\* a Modify event, and process_event sends the path to file_tx.
FileTouch(path) ==
    /\ fsEvents < MaxFsEvents
    /\ fsize[path] # None
    /\ \E profile_name \in watching[path] :
           file_rx' = Append(file_rx, DetectedFile(path, profile_name))
    /\ fsEvents' = fsEvents + 1
    /\ lastEmit' = <<>>
    /\ lastTrack' = None
    /\ UNCHANGED <<stability_duration, poll_interval, watching,
                   fsize, tracked_files,
                   now, loopAt, ready_rx, emitsInWindow, obsRun>>
    /\ UNCHANGED <<storeVars, max_attempts, workerVars, watcherVars, opVars,
                   histVars, lastTrans, engineVars, reloadVars,
                   progressVars, startVars,
                   subtitleVars,
                   tempVars,
                   channelVars,
                   enqueueVars,
                   folderVars>>

\* The file is removed: a Remove event, which process_event ignores.
FileRemove(path) ==
    /\ fsEvents < MaxFsEvents
    /\ fsize[path] # None
    /\ fsize' = [fsize EXCEPT ![path] = None]
    /\ emitsInWindow' = [emitsInWindow EXCEPT ![path] = 0]
    /\ fsEvents' = fsEvents + 1
    /\ lastEmit' = <<>>
    /\ lastTrack' = None
    /\ UNCHANGED <<stability_duration, poll_interval, watching,
                   tracked_files, now,
                   loopAt, file_rx, ready_rx, obsRun>>
    /\ UNCHANGED <<storeVars, max_attempts, workerVars, watcherVars, opVars,
                   histVars, lastTrans, engineVars, reloadVars,
                   progressVars, startVars,
                   subtitleVars,
                   tempVars,
                   channelVars,
                   enqueueVars,
                   folderVars>>

\* A second passes.
Tick ==
    /\ now < MaxTime
    /\ now' = now + 1
    /\ lastEmit' = <<>>
    /\ lastTrack' = None
    /\ UNCHANGED <<stability_duration, poll_interval, watching,
                   fsize, tracked_files,
                   loopAt, file_rx, ready_rx, fsEvents, emitsInWindow, obsRun>>
    /\ UNCHANGED <<storeVars, max_attempts, workerVars, watcherVars, opVars,
                   histVars, lastTrans, engineVars, reloadVars,
                   progressVars, startVars,
                   subtitleVars,
                   tempVars,
                   channelVars,
                   enqueueVars,
                   folderVars>>

\* The tracker as WatcherManager::new builds it from a validated configuration.
TrackerInit ==
    /\ stability_duration \in 1..MaxDuration
    /\ poll_interval \in 1..MaxDuration
    /\ watching = [p \in Paths |-> {"movies"}]
    /\ fsize = [p \in Paths |-> None]
    /\ tracked_files = [p \in Paths |-> None]
    /\ now = 0
    /\ loopAt = 0
    /\ file_rx = <<>>
    /\ ready_rx = <<>>
    /\ fsEvents = 0
    /\ emitsInWindow = [p \in Paths |-> 0]
    /\ lastEmit = <<>>
    /\ lastTrack = None
    /\ obsRun = [p \in Paths |-> None]

FileSystem ==
    \/ \E path \in Paths, size \in 0..MaxSize : FileWrite(path, size)
    \/ \E path \in Paths : FileTouch(path)
    \/ \E path \in Paths : FileRemove(path)

run_loop == recv_detected \/ recv_ready \/ check_all

NextStability == FileSystem \/ run_loop \/ Tick

\* The store and its clients at startup, under one retry configuration.
QueueIdle == QueueInit /\ max_attempts = MaxAttemptsCap

InitStability ==
    QueueIdle /\ TrackerInit /\ EngineIdle /\ ReloadInit /\ ProgressInit
        /\ StartIdle /\ SubtitleIdle
        /\ TempIdle
        /\ ChannelIdle
        /\ EnqueueIdle
        /\ FolderIdle

SpecStability == InitStability /\ [][NextStability]_vars

\* C13: the tracker never emits a path on a tick at which the file's size is
\* 0: a ready event is sent only by a check_all that observed a current size
\* greater than 0 and equal to the size recorded before.
C13_NeverEmitsZeroSize ==
    \A i \in 1..Len(lastEmit) :
        /\ lastEmit[i].size > 0
        /\ lastEmit[i].size = lastEmit[i].last_size

\* One check_all has sent a ready event for one path and has kept another
\* path whose size has been observed as 0 for stability_duration or longer.
C13_Witness ==
    /\ lastEmit # <<>>
    /\ \E p \in Paths :
           /\ tracked_files[p] # None
           /\ fsize[p] = Some(0)
           /\ obsRun[p] # None
           /\ obsRun[p][1].size = 0
           /\ now - obsRun[p][1].since >= stability_duration

\* C14: a tracked path is emitted only when the size observed for it has been
\* non-zero and the same on every check_all tick for at least
\* stability_duration; a tick that observes a size different from the recorded
\* one records the new size and clears stable_since, so the window restarts.
C14_EmittedAfterStableWindow ==
    /\ [](\A i \in 1..Len(lastEmit) :
              /\ lastEmit[i].size > 0
              /\ lastEmit[i].at - lastEmit[i].obs_since >= stability_duration)
    /\ [][check_all =>
              \A p \in Paths :
                  (/\ tracked_files[p] # None
                   /\ fsize[p] # None
                   /\ fsize[p][1] # tracked_files[p][1].last_size)
                  => tracked_files'[p] =
                         Some([tracked_files[p][1] EXCEPT
                                   !.last_size = fsize[p][1],
                                   !.stable_since = None])]_vars

\* A file was stable, then changed its size, and is emitted at the end of the
\* window that restarted at the new size.
C14_Witness ==
    \E i \in 1..Len(lastEmit) :
        /\ lastEmit[i].restarted
        /\ lastEmit[i].at - lastEmit[i].obs_since >= stability_duration

\* C15: between two consecutive changes of a file's size its path is sent to
\* the ready channel at most once, whatever the order of file-detected events
\* and check_all ticks, events that arrive after the path was emitted included.
C15_AtMostOncePerStableWindow == \A p \in Paths : emitsInWindow[p] <= 1

(***************************************************************************)
(* The audio track decision engine (src/src/media/audio.rs).  A codec or a *)
(* language is a string; a title is a sequence of letters.  An             *)
(* AudioTrackAction is a record whose field kind names the variant.        *)
(***************************************************************************)
\* str::to_lowercase on the codec names of the model.
to_lowercase(str) ==
    CASE str = "TrueHD" -> "truehd"
      [] str = "AC3" -> "ac3"
      [] str = "AAC" -> "aac"
      [] OTHER -> str

\* str::to_lowercase on a title, letter by letter.
LowerLetter(c) ==
    CASE c = "C" -> "c"
      [] c = "O" -> "o"
      [] c = "M" -> "m"
      [] OTHER -> c

title_to_lowercase(title) == [i \in 1..Len(title) |-> LowerLetter(title[i])]

\* str::contains
contains(text, pattern) ==
    \E i \in 1..(Len(text) + 1) :
        /\ i + Len(pattern) - 1 <= Len(text)
        /\ SubSeq(text, i, i + Len(pattern) - 1) = pattern

\* probe::is_lossless_codec
is_lossless_codec(codec) ==
    to_lowercase(codec) \in {"truehd", "mlp", "dts-hd ma", "dtshd", "flac",
                             "alac", "pcm_s16le", "pcm_s24le", "pcm_s32le"}

\* matches_flags
matches_flags(stream, flags) ==
    /\ flags.commentary # None => stream.is_commentary = flags.commentary[1]
    /\ flags.visual_impaired # None =>
           stream.is_visual_impaired = flags.visual_impaired[1]
    /\ flags.default # None => stream.is_default = flags.default[1]

\* matches_criteria: every criterion that is present matches the stream.
matches_criteria(stream, criteria) ==
    /\ criteria.language # None => stream.language = criteria.language
    /\ criteria.languages # None =>
           /\ stream.language # None
           /\ stream.language[1] \in Range(criteria.languages[1])
    /\ criteria.codec # None =>
           to_lowercase(stream.codec) = to_lowercase(criteria.codec[1])
    /\ criteria.codecs # None =>
           \E i \in 1..Len(criteria.codecs[1]) :
               to_lowercase(criteria.codecs[1][i]) = to_lowercase(stream.codec)
    /\ criteria.channels_min # None =>
           stream.channels >= criteria.channels_min[1]
    /\ criteria.channels_max # None =>
           stream.channels <= criteria.channels_max[1]
    /\ criteria.flags # None => matches_flags(stream, criteria.flags[1])
    /\ criteria.title_contains # None =>
           /\ stream.title # None
           /\ contains(title_to_lowercase(stream.title[1]),
                       title_to_lowercase(criteria.title_contains[1]))
    /\ criteria.index # None => stream.index = criteria.index[1]

\* Mutant: the last matching rule instead of the first one.
match_stream_to_last_rule(stream, cfg) ==
    LET hits == {i \in 1..Len(cfg.rules) :
                     matches_criteria(stream, cfg.rules[i].match_criteria)}
    IN IF hits = {} THEN None
       ELSE Some((CHOOSE i \in hits : \A k \in hits : i >= k) - 1)

\* match_stream_to_rule: None, or Some(the index of the first matching rule);
\* the index counts from 0.
match_stream_to_rule(stream, cfg) ==
    LET hits == {i \in 1..Len(cfg.rules) :
                     matches_criteria(stream, cfg.rules[i].match_criteria)}
    IN IF hits = {} THEN None
       ELSE Some((CHOOSE i \in hits : \A k \in hits : i <= k) - 1)

Passthrough == [kind |-> "Passthrough"]
Exclude == [kind |-> "Exclude"]
Transcode(codec, bitrate) ==
    [kind |-> "Transcode", codec |-> codec, bitrate |-> bitrate]

\* The Transcode action of a rule that has transcode settings, for the actions
\* that look at lossless_bitrate.
transcode_for(stream, transcode) ==
    Transcode(transcode.codec,
              IF is_lossless_codec(stream.codec)
                     /\ transcode.lossless_bitrate # None
              THEN transcode.lossless_bitrate[1] ELSE transcode.bitrate)

\* determine_base_action
determine_base_action(stream, rule) ==
    CASE rule.action = "Passthrough" -> Passthrough
      [] rule.action = "Exclude" -> Exclude
      [] rule.action = "Transcode" ->
             IF rule.transcode # None
             THEN transcode_for(stream, rule.transcode[1]) ELSE Passthrough
      [] rule.action = "PassthroughOrTranscode" ->
             IF \E i \in 1..Len(rule.passthrough_codecs) :
                    to_lowercase(rule.passthrough_codecs[i])
                        = to_lowercase(stream.codec)
             THEN Passthrough
             ELSE IF rule.transcode # None
                  THEN transcode_for(stream, rule.transcode[1])
                  ELSE Passthrough
      [] rule.action = "PassthroughLossless" ->
             IF is_lossless_codec(stream.codec) THEN Passthrough
             ELSE IF rule.transcode # None
                  THEN Transcode(rule.transcode[1].codec,
                                 rule.transcode[1].bitrate)
                  ELSE Passthrough

\* create_decision: the rule has downmix settings with a mode other than None.
has_downmix(rule) == rule.downmix # None /\ rule.downmix[1].mode # "None"

\* Mutant: a stereo stream gets a downmix too.
downmix_applies_from_stereo(stream, rule) ==
    has_downmix(rule) /\ stream.channels >= 2

\* create_decision: has_downmix && stream.channels > 2
downmix_applies(stream, rule) == has_downmix(rule) /\ stream.channels > 2

\* create_decision
create_decision(stream, rule, rule_idx) ==
    LET base_action == determine_base_action(stream, rule)
        downmix == rule.downmix[1]
        action ==
            IF downmix_applies(stream, rule)
            THEN CASE base_action.kind = "Passthrough" ->
                          [kind |-> "PassthroughWithDownmix",
                           downmix_codec |-> downmix.codec,
                           downmix_bitrate |-> downmix.bitrate]
                   [] base_action.kind = "Transcode" ->
                          [kind |-> "TranscodeWithDownmix",
                           codec |-> base_action.codec,
                           bitrate |-> base_action.bitrate,
                           downmix_codec |-> downmix.codec,
                           downmix_bitrate |-> downmix.bitrate]
                   [] OTHER -> base_action
            ELSE base_action
    IN [stream |-> stream, action |-> action, matched_rule |-> Some(rule_idx)]

\* process_audio_streams, the None arm: the fallback for an unmatched stream.
fallback_decision(stream, cfg) ==
    [stream |-> stream,
     action |-> IF cfg.fallback = "Exclude" THEN Exclude ELSE Passthrough,
     matched_rule |-> None]

\* process_audio_streams, the body of the loop for one stream: the decision
\* and the track counts after it.
decide_stream(stream, cfg, track_counts) ==
    LET m == match_stream_to_rule(stream, cfg)
        rule == cfg.rules[m[1] + 1]
        capped == /\ m # None
                  /\ cfg.max_tracks_per_language # None
                  /\ stream.language # None
        lang == stream.language[1]
    IN IF m = None
       THEN [decision |-> fallback_decision(stream, cfg),
             track_counts |-> track_counts]
       ELSE IF capped /\ track_counts[lang] >= cfg.max_tracks_per_language[1]
            THEN [decision |-> [stream |-> stream, action |-> Exclude,
                                matched_rule |-> m],
                  track_counts |-> track_counts]
            ELSE [decision |-> create_decision(stream, rule, m[1]),
                  track_counts |->
                      IF capped
                      THEN [track_counts EXCEPT ![lang] = @ + 1]
                      ELSE track_counts]

Languages == {"eng", "jpn"}

\* process_audio_streams: the loop from stream i on.
RECURSIVE process_from(_, _, _, _)
process_from(strs, cfg, i, track_counts) ==
    IF i > Len(strs) THEN <<>>
    ELSE LET step == decide_stream(strs[i], cfg, track_counts)
         IN <<step.decision>>
                \o process_from(strs, cfg, i + 1, step.track_counts)

\* process_audio_streams
process_audio_streams(strs, cfg) ==
    process_from(strs, cfg, 1, [l \in Languages |-> 0])

(***************************************************************************)
(* The inputs of the decision engine: lists of streams that differ in      *)
(* language and commentary flag under rule lists that match on them (the   *)
(* per-language cap), and one stream under one rule of every action, with  *)
(* and without transcode and downmix settings.                             *)
(***************************************************************************)
SeqUpTo(S, n) == UNION {[1..k -> S] : k \in 0..n}

\* probe::parse_audio_stream: an AudioStream; the video stream has index 0.
AudioStream(index, codec, channels, language, title, is_commentary) ==
    [index |-> index, codec |-> codec, channels |-> channels,
     language |-> language, title |-> title, is_default |-> FALSE,
     is_commentary |-> is_commentary, is_visual_impaired |-> FALSE]

\* AudioMatchCriteria::default(): no criterion is present.
AnyCriteria ==
    [language |-> None, languages |-> None, codec |-> None, codecs |-> None,
     channels_min |-> None, channels_max |-> None, flags |-> None,
     title_contains |-> None, index |-> None]

CommentaryFlag ==
    [commentary |-> Some(TRUE), visual_impaired |-> None, default |-> None]

AudioRule(criteria, action, passthrough_codecs, transcode, downmix) ==
    [match_criteria |-> criteria, action |-> action,
     passthrough_codecs |-> passthrough_codecs, transcode |-> transcode,
     downmix |-> downmix]

TrackFallback == {"Exclude", "Include", "Passthrough"}

AudioActions ==
    {"Passthrough", "Transcode", "PassthroughOrTranscode",
     "PassthroughLossless", "Exclude"}

CapCriteria ==
    {AnyCriteria,
     [AnyCriteria EXCEPT !.language = Some("eng")],
     [AnyCriteria EXCEPT !.flags = Some(CommentaryFlag)]}

CapRules ==
    {AudioRule(c, a, <<>>, None, None) :
         c \in CapCriteria, a \in {"Passthrough", "Exclude"}}

CapStreams ==
    {[i \in 1..Len(l) |->
          AudioStream(i, "aac", 6, l[i][1], None, l[i][2])] :
         l \in SeqUpTo({None, Some("eng"), Some("jpn")} \X BOOLEAN,
                       MaxStreams)}

CapConfigs ==
    [rules : SeqUpTo(CapRules, MaxRules), fallback : TrackFallback,
     max_tracks_per_language : {None} \cup {Some(n) : n \in 0..MaxCap}]

RuleCriteria ==
    {AnyCriteria,
     [AnyCriteria EXCEPT !.language = Some("eng")],
     [AnyCriteria EXCEPT !.languages = Some(<<"jpn", "eng">>)],
     [AnyCriteria EXCEPT !.codec = Some("truehd")],
     [AnyCriteria EXCEPT !.codecs = Some(<<"AC3", "AAC">>)],
     [AnyCriteria EXCEPT !.channels_min = Some(6)],
     [AnyCriteria EXCEPT !.channels_max = Some(2)],
     [AnyCriteria EXCEPT !.flags = Some(CommentaryFlag)],
     [AnyCriteria EXCEPT !.title_contains = Some(<<"c", "O">>)],
     [AnyCriteria EXCEPT !.index = Some(1)]}

TranscodeSettings ==
    {None,
     Some([codec |-> "libopus", bitrate |-> "128k", lossless_bitrate |-> None]),
     Some([codec |-> "libopus", bitrate |-> "128k",
           lossless_bitrate |-> Some("256k")])}

DownmixSettings ==
    {None} \cup {Some([mode |-> m, codec |-> "aac", bitrate |-> "160k"]) :
                     m \in {"None", "Replace", "AddStereo"}}

OneRuleConfigs ==
    {[rules |-> <<AudioRule(c, a, pc, t, d)>>, fallback |-> f,
      max_tracks_per_language |-> None] :
         c \in RuleCriteria, a \in AudioActions, pc \in {<<>>, <<"AAC">>},
         t \in TranscodeSettings, d \in DownmixSettings, f \in TrackFallback}

OneStream ==
    {<<AudioStream(1, codec, channels, Some("eng"), title, commentary)>> :
         codec \in {"TrueHD", "aac"}, channels \in {1, 2, 6},
         title \in {None, Some(<<"C", "o", "m">>)}, commentary \in BOOLEAN}

EngineInit ==
    /\ \/ streams \in CapStreams /\ config \in CapConfigs
       \/ streams \in OneStream /\ config \in OneRuleConfigs
    /\ decisions = None

\* run_encode_pipeline, phase 2: the audio decisions of the job's profile.
decide_audio ==
    /\ decisions = None
    /\ decisions' = Some(process_audio_streams(streams, config))
    /\ UNCHANGED <<streams, config>>
    /\ UNCHANGED <<storeVars, max_attempts, workerVars, watcherVars, opVars,
                   histVars, lastTrans, trackerVars, reloadVars,
                   progressVars, startVars,
                   subtitleVars,
                   tempVars,
                   channelVars,
                   enqueueVars,
                   folderVars>>

NextAudio == decide_audio

InitAudio ==
    QueueIdle /\ TrackerIdle /\ EngineInit /\ ReloadInit /\ ProgressInit
        /\ StartIdle /\ SubtitleIdle
        /\ TempIdle
        /\ ChannelIdle
        /\ EnqueueIdle
        /\ FolderIdle

SpecAudio == InitAudio /\ [][NextAudio]_vars

\* The decisions with a non-exclude action for the streams of a language.
KeptOfLanguage(lang) ==
    {i \in 1..Len(decisions[1]) :
        /\ decisions[1][i].stream.language = Some(lang)
        /\ decisions[1][i].action.kind # "Exclude"}

\* C16: with max_tracks_per_language = 1, for every list of audio streams,
\* every rule list and every fallback setting, process_audio_streams returns
\* at most one decision with a non-exclude action per stream language.
C16_AtMostOneKeptPerLanguage ==
    (decisions # None /\ config.max_tracks_per_language = Some(1)) =>
        \A lang \in Languages : Cardinality(KeptOfLanguage(lang)) <= 1

DownmixKinds == {"PassthroughWithDownmix", "TranscodeWithDownmix"}

\* C17: for every rule and every audio stream with 2 channels or fewer the
\* decision is never PassthroughWithDownmix or TranscodeWithDownmix, and a
\* rule whose action is exclude never yields a downmix variant, whatever the
\* channel count.
C17_NoDownmixForStereoOrExclude ==
    decisions # None =>
        \A i \in 1..Len(decisions[1]) :
            LET d == decisions[1][i]
            IN /\ d.stream.channels <= 2 => d.action.kind \notin DownmixKinds
               /\ (/\ d.matched_rule # None
                   /\ config.rules[d.matched_rule[1] + 1].action = "Exclude")
                  => d.action.kind \notin DownmixKinds

\* A stream with exactly 2 channels matched a rule that transcodes and has
\* downmix settings of mode add_stereo, and its decision is a plain transcode.
C17_Witness ==
    /\ decisions # None
    /\ \E i \in 1..Len(decisions[1]) :
           LET d == decisions[1][i]
           IN /\ d.stream.channels = 2
              /\ d.matched_rule # None
              /\ config.rules[d.matched_rule[1] + 1].downmix # None
              /\ config.rules[d.matched_rule[1] + 1].downmix[1].mode
                     = "AddStereo"
              /\ d.action.kind = "Transcode"

(***************************************************************************)
(* Hot reload of the configuration (src/src/config/hot_reload.rs) and a    *)
(* reader of the shared configuration (the worker's process_job, the       *)
(* intake loop's enqueue_file).  The AppConfig value has two parts, global *)
(* and profiles; an assignment to it writes one part after the other, and  *)
(* a reader reads one part after the other.  A file is what an edit left   *)
(* on disk: its version and what load_and_validate makes of it.            *)
(***************************************************************************)
FileKinds == {"valid", "invalid", "unparsable", "unreadable"}

\* mpsc::channel(10): a send waits while the channel holds this many events.
ReloadChannelCapacity == 10

\* Mutant: the loaded configuration is not validated.
load_without_validate_ok(file) == file.kind \in {"valid", "invalid"}

\* load_and_validate returns Ok: the file was read and parsed and
\* validate_config found no error.
load_and_validate_ok(file) == file.kind = "valid"

\* The configuration file is edited; the watcher gets a Modify event.
EditFile(kind) ==
    /\ edits < MaxEdits
    /\ edits' = edits + 1
    /\ config_file' = [version |-> edits + 1, kind |-> kind]
    /\ cfg_events' = cfg_events + 1
    /\ UNCHANGED <<shared_config, cpc, new_config, wlocked, rlocked, rdpc,
                   rd_global, seen, reload_rx, cfgBefore>>
    /\ UNCHANGED <<storeVars, max_attempts, workerVars, watcherVars, opVars,
                   histVars, lastTrans, trackerVars, engineVars,
                   progressVars, startVars,
                   subtitleVars,
                   tempVars,
                   channelVars,
                   enqueueVars,
                   folderVars>>

\* handle_changes: an event arrives less than 500 ms after the last reload
\* (or after the start) and is dropped.
handle_changes_debounced ==
    /\ cpc = "recv"
    /\ cfg_events > 0
    /\ cfg_events' = cfg_events - 1
    /\ UNCHANGED <<shared_config, config_file, cpc, new_config, wlocked,
                   rlocked, rdpc, rd_global, seen, reload_rx, edits,
                   cfgBefore>>
    /\ UNCHANGED <<storeVars, max_attempts, workerVars, watcherVars, opVars,
                   histVars, lastTrans, trackerVars, engineVars,
                   progressVars, startVars,
                   subtitleVars,
                   tempVars,
                   channelVars,
                   enqueueVars,
                   folderVars>>

\* handle_changes: an event arrives after the debounce window; the task
\* sleeps 500 ms and calls try_reload.
handle_changes_recv ==
    /\ cpc = "recv"
    /\ cfg_events > 0
    /\ cfg_events' = cfg_events - 1
    /\ cpc' = "try_reload"
    /\ UNCHANGED <<shared_config, config_file, new_config, wlocked, rlocked,
                   rdpc, rd_global, seen, reload_rx, edits, cfgBefore>>
    /\ UNCHANGED <<storeVars, max_attempts, workerVars, watcherVars, opVars,
                   histVars, lastTrans, trackerVars, engineVars,
                   progressVars, startVars,
                   subtitleVars,
                   tempVars,
                   channelVars,
                   enqueueVars,
                   folderVars>>

\* try_reload: load_and_validate(&self.config_path, ..)?
try_reload_load ==
    /\ cpc = "try_reload"
    /\ cfgBefore' = shared_config
    /\ IF load_and_validate_ok(config_file)
       THEN /\ new_config' = config_file
            /\ cpc' = "write_lock"
       ELSE /\ cpc' = "send_failed"
            /\ UNCHANGED new_config
    /\ UNCHANGED <<shared_config, config_file, cfg_events, wlocked, rlocked,
                   rdpc, rd_global, seen, reload_rx, edits>>
    /\ UNCHANGED <<storeVars, max_attempts, workerVars, watcherVars, opVars,
                   histVars, lastTrans, trackerVars, engineVars,
                   progressVars, startVars,
                   subtitleVars,
                   tempVars,
                   channelVars,
                   enqueueVars,
                   folderVars>>

\* try_reload: self.config.write().await, granted when no reader holds the lock.
try_reload_write_lock ==
    /\ cpc = "write_lock"
    /\ ~rlocked
    /\ wlocked' = TRUE
    /\ cpc' = "write_global"
    /\ UNCHANGED <<shared_config, config_file, cfg_events, new_config, rlocked,
                   rdpc, rd_global, seen, reload_rx, edits, cfgBefore>>
    /\ UNCHANGED <<storeVars, max_attempts, workerVars, watcherVars, opVars,
                   histVars, lastTrans, trackerVars, engineVars,
                   progressVars, startVars,
                   subtitleVars,
                   tempVars,
                   channelVars,
                   enqueueVars,
                   folderVars>>

\* try_reload: *config = new_config, the first part.
try_reload_write_global ==
    /\ cpc = "write_global"
    /\ shared_config' = [shared_config EXCEPT !.global = new_config]
    /\ cpc' = "write_profiles"
    /\ UNCHANGED <<config_file, cfg_events, new_config, wlocked, rlocked, rdpc,
                   rd_global, seen, reload_rx, edits, cfgBefore>>
    /\ UNCHANGED <<storeVars, max_attempts, workerVars, watcherVars, opVars,
                   histVars, lastTrans, trackerVars, engineVars,
                   progressVars, startVars,
                   subtitleVars,
                   tempVars,
                   channelVars,
                   enqueueVars,
                   folderVars>>

\* try_reload: *config = new_config, the second part; the guard is dropped.
try_reload_write_profiles ==
    /\ cpc = "write_profiles"
    /\ shared_config' = [shared_config EXCEPT !.profiles = new_config]
    /\ wlocked' = FALSE
    /\ cpc' = "send_reloaded"
    /\ UNCHANGED <<config_file, cfg_events, new_config, rlocked, rdpc,
                   rd_global, seen, reload_rx, edits, cfgBefore>>
    /\ UNCHANGED <<storeVars, max_attempts, workerVars, watcherVars, opVars,
                   histVars, lastTrans, trackerVars, engineVars,
                   progressVars, startVars,
                   subtitleVars,
                   tempVars,
                   channelVars,
                   enqueueVars,
                   folderVars>>

\* handle_changes, Ok arm: send ConfigReloadEvent::Reloaded.
handle_changes_send_reloaded ==
    /\ cpc = "send_reloaded"
    /\ Len(reload_rx) < ReloadChannelCapacity
    /\ reload_rx' = Append(reload_rx, "Reloaded")
    /\ cpc' = "recv"
    /\ UNCHANGED <<shared_config, config_file, cfg_events, new_config, wlocked,
                   rlocked, rdpc, rd_global, seen, edits, cfgBefore>>
    /\ UNCHANGED <<storeVars, max_attempts, workerVars, watcherVars, opVars,
                   histVars, lastTrans, trackerVars, engineVars,
                   progressVars, startVars,
                   subtitleVars,
                   tempVars,
                   channelVars,
                   enqueueVars,
                   folderVars>>

\* handle_changes, Err arm: send ConfigReloadEvent::ValidationFailed.
handle_changes_send_failed ==
    /\ cpc = "send_failed"
    /\ Len(reload_rx) < ReloadChannelCapacity
    /\ reload_rx' = Append(reload_rx, "ValidationFailed")
    /\ cpc' = "recv"
    /\ UNCHANGED <<shared_config, config_file, cfg_events, new_config, wlocked,
                   rlocked, rdpc, rd_global, seen, edits, cfgBefore>>
    /\ UNCHANGED <<storeVars, max_attempts, workerVars, watcherVars, opVars,
                   histVars, lastTrans, trackerVars, engineVars,
                   progressVars, startVars,
                   subtitleVars,
                   tempVars,
                   channelVars,
                   enqueueVars,
                   folderVars>>

\* run_pipeline's main loop receives a reload event and logs it.
recv_reload_event ==
    /\ reload_rx # <<>>
    /\ reload_rx' = Tail(reload_rx)
    /\ UNCHANGED <<shared_config, config_file, cfg_events, cpc, new_config,
                   wlocked, rlocked, rdpc, rd_global, seen, edits, cfgBefore>>
    /\ UNCHANGED <<storeVars, max_attempts, workerVars, watcherVars, opVars,
                   histVars, lastTrans, trackerVars, engineVars,
                   progressVars, startVars,
                   subtitleVars,
                   tempVars,
                   channelVars,
                   enqueueVars,
                   folderVars>>

\* A reader: self.config.read().await, granted when no writer holds the lock.
config_read_lock ==
    /\ rdpc = "idle"
    /\ ~wlocked
    /\ rlocked' = TRUE
    /\ rdpc' = "read_global"
    /\ UNCHANGED <<shared_config, config_file, cfg_events, cpc, new_config,
                   wlocked, rd_global, seen, reload_rx, edits, cfgBefore>>
    /\ UNCHANGED <<storeVars, max_attempts, workerVars, watcherVars, opVars,
                   histVars, lastTrans, trackerVars, engineVars,
                   progressVars, startVars,
                   subtitleVars,
                   tempVars,
                   channelVars,
                   enqueueVars,
                   folderVars>>

\* The reader reads the first part through its guard.
config_read_global ==
    /\ rdpc = "read_global"
    /\ rd_global' = shared_config.global
    /\ rdpc' = "read_profiles"
    /\ UNCHANGED <<shared_config, config_file, cfg_events, cpc, new_config,
                   wlocked, rlocked, seen, reload_rx, edits, cfgBefore>>
    /\ UNCHANGED <<storeVars, max_attempts, workerVars, watcherVars, opVars,
                   histVars, lastTrans, trackerVars, engineVars,
                   progressVars, startVars,
                   subtitleVars,
                   tempVars,
                   channelVars,
                   enqueueVars,
                   folderVars>>

\* The reader reads the second part and drops its guard.
config_read_profiles ==
    /\ rdpc = "read_profiles"
    /\ seen' = Some([global |-> rd_global,
                     profiles |-> shared_config.profiles])
    /\ rlocked' = FALSE
    /\ rdpc' = "idle"
    /\ UNCHANGED <<shared_config, config_file, cfg_events, cpc, new_config,
                   wlocked, rd_global, reload_rx, edits, cfgBefore>>
    /\ UNCHANGED <<storeVars, max_attempts, workerVars, watcherVars, opVars,
                   histVars, lastTrans, trackerVars, engineVars,
                   progressVars, startVars,
                   subtitleVars,
                   tempVars,
                   channelVars,
                   enqueueVars,
                   folderVars>>

ConfigWatcher ==
    \/ handle_changes_debounced \/ handle_changes_recv
    \/ try_reload_load \/ try_reload_write_lock
    \/ try_reload_write_global \/ try_reload_write_profiles
    \/ handle_changes_send_reloaded \/ handle_changes_send_failed

ConfigReader == config_read_lock \/ config_read_global \/ config_read_profiles

NextReload ==
    \/ \E kind \in FileKinds : EditFile(kind)
    \/ ConfigWatcher
    \/ ConfigReader
    \/ recv_reload_event

InitReload ==
    QueueIdle /\ TrackerIdle /\ EngineIdle /\ ReloadInit /\ ProgressInit
        /\ StartIdle /\ SubtitleIdle
        /\ TempIdle
        /\ ChannelIdle
        /\ EnqueueIdle
        /\ FolderIdle

SpecReload == InitReload /\ [][NextReload]_vars

\* A complete configuration that passed validation: both parts come from the
\* same file, the startup file or an edit that is valid.
CompleteAndValid(cfg) ==
    /\ cfg.global = cfg.profiles
    /\ cfg.global.kind = "valid"

\* C18: when a hot reload fails to load or validate the new configuration
\* file, the shared configuration is left exactly as it was and a
\* ValidationFailed event is sent on the reload channel; and no reader ever
\* observes a configuration other than the complete old value or a complete
\* validated new value.
C18_FailedReloadKeepsConfig ==
    /\ [](cpc = "send_failed" => shared_config = cfgBefore)
    /\ [][(cpc = "send_failed" /\ cpc' # cpc) =>
              /\ shared_config' = cfgBefore
              /\ reload_rx' = Append(reload_rx, "ValidationFailed")]_vars
    /\ [](seen # None =>
              /\ CompleteAndValid(seen[1])
              /\ seen[1].global.version <= edits)

\* A valid edit was reloaded and observed by the reader; a later edit that does
\* not validate was rejected: the event is in the channel and the shared
\* configuration is still the one the reader saw.
C18_Witness ==
    /\ config_file.kind = "invalid"
    /\ cpc = "recv"
    /\ reload_rx # <<>>
    /\ reload_rx[Len(reload_rx)] = "ValidationFailed"
    /\ seen = Some(shared_config)
    /\ shared_config.global.version = 1

(***************************************************************************)
(* The timestamps of a job (src/src/queue/job.rs), on its stored record    *)
(* and on the copy the worker holds.                                       *)
(***************************************************************************)
\* started_at is set exactly when the job has entered in_flight at least once.
StartedAtFollowsStarts(job) == job.started_at <=> starts[job.id] >= 1

\* completed_at is set only on a job whose status is completed.
CompletedAtOnlyOnCompleted(job) == job.completed_at => job.status = "Completed"

\* C19: started_at is unset until the job's first pending -> in_flight
\* transition and set from then on; completed_at is set only when the status
\* becomes completed, so wherever completed_at is set the status is completed.
C19_TimestampsFollowStatus ==
    /\ \A id \in JobIds :
           HasRecord(id) =>
               /\ StartedAtFollowsStarts(Record(id))
               /\ CompletedAtOnlyOnCompleted(Record(id))
    /\ wjob # None =>
           /\ wpc # "process" => StartedAtFollowsStarts(wjob[1])
           /\ CompletedAtOnlyOnCompleted(wjob[1])

(***************************************************************************)
(* Failure handling (src/src/queue/dead_letter.rs, retry_job and           *)
(* dead_letter of src/src/queue/redis.rs), seen from the store.            *)
(***************************************************************************)
\* The record of id after the step.
RecordAfter(id) == from_str(jobs'[id][1])

\* The worker takes the step that leaves position pc.
WorkerLeaves(pc) == wpc = pc /\ wpc' # pc

\* C20: for a job whose attempt just failed, if attempt_count < max_attempts
\* the record is written with status pending and with error message and
\* progress cleared, the id is removed from the in-flight set and pushed to the
\* head of the pending list; otherwise the record is written with status
\* dead_letter and the reason "Exhausted N attempts. Last error: <msg>", the id
\* is removed from the in-flight set and appended to the dead-letter list.
\* Exactly one of the two branches is taken.
C20_FailureHandlingBranches ==
    [][/\ (WorkerLeaves("pipeline") /\ wpc' # "complete_srem") =>
              LET job == wjob[1] IN
              IF job.attempt_count < max_attempts
              THEN /\ wpc' = "retry_srem"
                   /\ RecordAfter(job.id).status = "Pending"
                   /\ RecordAfter(job.id).error_message = None
                   /\ RecordAfter(job.id).progress = None
                   /\ RecordAfter(job.id).attempt_count = job.attempt_count
              ELSE /\ wpc' = "dead_letter_srem"
                   /\ RecordAfter(job.id).status = "DeadLetter"
                   /\ RecordAfter(job.id).error_message =
                          Some(ExhaustedReason(max_attempts, PipelineError))
                   /\ RecordAfter(job.id).attempt_count = job.attempt_count
       /\ WorkerLeaves("retry_srem") =>
              /\ wpc' = "retry_lpush"
              /\ processing' = processing \ {wjob[1].id}
              /\ UNCHANGED <<jobs, dead>>
       /\ WorkerLeaves("retry_lpush") =>
              /\ queue' = <<wjob[1].id>> \o queue
              /\ wpc' = "dequeue"
              /\ UNCHANGED <<jobs, processing, dead>>
       /\ WorkerLeaves("dead_letter_srem") =>
              /\ wpc' = "dead_letter_rpush"
              /\ processing' = processing \ {wjob[1].id}
              /\ UNCHANGED <<jobs, queue>>
       /\ WorkerLeaves("dead_letter_rpush") =>
              /\ dead' = dead \o <<wjob[1].id>>
              /\ wpc' = "dequeue"
              /\ UNCHANGED <<jobs, processing, queue>>]_vars

\* With max_attempts = 2 a job failed twice: the first failure put it back at
\* the head of the pending list, the second one in the dead-letter list with
\* the reason written out, while the next job waits in the pending list.
C20_Witness ==
    /\ max_attempts = 2
    /\ wpc = "dequeue"
    /\ queue # <<>>
    /\ \E id \in JobIds :
           /\ starts[id] = 2
           /\ dead = <<id>>
           /\ id \notin processing
           /\ Record(id).status = "DeadLetter"
           /\ Record(id).error_message =
                  Some(<<"Exhausted", "2", "attempts.", "Last", "error:",
                         "encoder", "failed">>)

(***************************************************************************)
(* The intake loop over an unbounded time (src/src/watcher/manager.rs,     *)
(* run_loop).  The clock stays at 0 and the Instants kept in the state     *)
(* grow older instead; an Instant older than every duration of the         *)
(* configuration is kept at that age.  The handlers of the loop take no    *)
(* time: a second passes only while the loop waits in select!.             *)
(***************************************************************************)
\* An Instant one second later, seen from the clock.
Aged(t) == IF t - 1 < now - MaxDuration THEN now - MaxDuration ELSE t - 1

\* The loop waits in select!: no message is waiting and the sleep has not ended.
run_loop_waits ==
    /\ file_rx = <<>>
    /\ ready_rx = <<>>
    /\ now - loopAt < poll_interval

\* A second passes while the loop waits.
SecondPasses ==
    /\ run_loop_waits
    /\ loopAt' = loopAt - 1
    /\ tracked_files' =
           [p \in Paths |->
               IF tracked_files[p] = None
                      \/ tracked_files[p][1].stable_since = None
               THEN tracked_files[p]
               ELSE Some([tracked_files[p][1] EXCEPT
                              !.stable_since =
                                  Some(Aged(tracked_files[p][1].stable_since[1]))])]
    /\ obsRun' =
           [p \in Paths |->
               IF obsRun[p] = None THEN None
               ELSE Some([obsRun[p][1] EXCEPT !.since = Aged(@)])]
    /\ lastEmit' = <<>>
    /\ lastTrack' = None
    /\ UNCHANGED <<stability_duration, poll_interval, watching,
                   fsize, now, file_rx,
                   ready_rx, fsEvents, emitsInWindow>>
    /\ UNCHANGED <<storeVars, max_attempts, workerVars, watcherVars, opVars,
                   histVars, lastTrans, engineVars, reloadVars,
                   progressVars, startVars,
                   subtitleVars,
                   tempVars,
                   channelVars,
                   enqueueVars,
                   folderVars>>

\* A file that is tracked and was not emitted at its present size is modified
\* once more without a change of its size (a writer that rewrites it, a
\* scanner that touches it): one more Modify event, any number of times.
FileTouchAgain(path) ==
    /\ fsize[path] # None
    /\ tracked_files[path] # None
    /\ emitsInWindow[path] = 0
    /\ file_rx = <<>>
    /\ \E profile_name \in watching[path] :
           file_rx' = Append(file_rx, DetectedFile(path, profile_name))
    /\ lastEmit' = <<>>
    /\ lastTrack' = None
    /\ UNCHANGED <<stability_duration, poll_interval, watching,
                   fsize, tracked_files,
                   now, loopAt, ready_rx, fsEvents, emitsInWindow, obsRun>>
    /\ UNCHANGED <<storeVars, max_attempts, workerVars, watcherVars, opVars,
                   histVars, lastTrans, engineVars, reloadVars,
                   progressVars, startVars,
                   subtitleVars,
                   tempVars,
                   channelVars,
                   enqueueVars,
                   folderVars>>

NextIntakeLoop ==
    \/ FileSystem
    \/ \E path \in Paths : FileTouchAgain(path)
    \/ run_loop
    \/ SecondPasses

\* The runtime polls the loop's task whenever a branch of select! is ready,
\* select! chooses among the ready branches at random, and time goes on.
SpecIntakeLoop ==
    /\ InitStability
    /\ [][NextIntakeLoop]_vars
    /\ SF_vars(check_all)
    /\ WF_vars(recv_detected)
    /\ WF_vars(recv_ready)
    /\ SF_vars(SecondPasses)

\* C21: check_all is invoked on a periodic tick: for any arrival pattern of
\* file-detected and ready events, events that keep arriving less than
\* poll_interval apart included, check_all runs again within a bounded time; it
\* runs infinitely often and is never starved by the other branches.
C21_CheckAllRunsInfinitelyOften == []<><<check_all>>_vars

(***************************************************************************)
(* The progress events of one job (src/src/encoder/worker.rs,              *)
(* run_encode_pipeline and send_progress; src/src/encoder/av1an.rs,        *)
(* encode).  A percent is a whole number; the phases of the pipeline       *)
(* succeed.  Three tasks run next to the worker: the av1an process, the    *)
(* task that reads its stderr, and the task that forwards the parsed       *)
(* percents to the worker's progress channel.                              *)
(***************************************************************************)
\* The percents av1an prints, in the order it can print them.
EncoderPercents == {0, 50, 100}

\* mpsc::channel(100) between the stderr reader and the forwarding task.
EncoderChannelCapacity == 100

\* 10.0 + (progress.percent * 0.7)
scaled(percent) == 10 + (percent * 7) \div 10

\* send_progress: one WorkerProgress on the worker's progress channel.
publish(percent) == progress_rx' = Append(progress_rx, percent)

\* A phase of the pipeline that only reports its progress.
send_progress(at, percent, next) ==
    /\ ppc = at
    /\ publish(percent)
    /\ ppc' = next
    /\ UNCHANGED <<child, lines, lastPercent, stderr_pipe, av1an_rx>>
    /\ UNCHANGED <<storeVars, max_attempts, workerVars, watcherVars, opVars,
                   histVars, lastTrans, trackerVars, engineVars, reloadVars, startVars,
                   subtitleVars,
                   tempVars,
                   channelVars,
                   enqueueVars,
                   folderVars>>

\* Phase 1: send_progress(0, Analyzing), probe, the decisions.
phase_analyzing == send_progress("analyzing", 0, "extracting")

\* Phase 3: send_progress(5, ExtractingSubtitles), extract_subtitles.
phase_extracting == send_progress("extracting", 5, "encoding")

\* Phase 4: send_progress(10, EncodingVideo); av1an::encode is spawned and
\* spawns the process and the stderr reader; the forwarding task is spawned.
phase_encoding ==
    /\ ppc = "encoding"
    /\ publish(10)
    /\ child' = "running"
    /\ ppc' = "encode_wait"
    /\ UNCHANGED <<lines, lastPercent, stderr_pipe, av1an_rx>>
    /\ UNCHANGED <<storeVars, max_attempts, workerVars, watcherVars, opVars,
                   histVars, lastTrans, trackerVars, engineVars, reloadVars, startVars,
                   subtitleVars,
                   tempVars,
                   channelVars,
                   enqueueVars,
                   folderVars>>

\* encode_handle.await: encode returns once child.wait() has returned.
encode_handle_await ==
    /\ ppc = "encode_wait"
    /\ child = "exited"
    /\ ppc' = "audio"
    /\ UNCHANGED <<child, lines, lastPercent, stderr_pipe, av1an_rx,
                   progress_rx>>
    /\ UNCHANGED <<storeVars, max_attempts, workerVars, watcherVars, opVars,
                   histVars, lastTrans, trackerVars, engineVars, reloadVars, startVars,
                   subtitleVars,
                   tempVars,
                   channelVars,
                   enqueueVars,
                   folderVars>>

\* Phase 6: send_progress(85, ProcessingAudio), process_audio.
phase_audio == send_progress("audio", 85, "muxing")

\* Phase 7: send_progress(95, Muxing), mux.
phase_muxing == send_progress("muxing", 95, "verifying")

\* Phase 8: send_progress(99, Verifying), probe of the output.
phase_verifying == send_progress("verifying", 99, "complete")

\* job.complete(metadata), send_progress(100, Verifying).
phase_complete == send_progress("complete", 100, "done")

\* av1an prints a progress line; its percent never goes down.
av1an_prints(percent) ==
    /\ child = "running"
    /\ lines < MaxLines
    /\ percent >= lastPercent
    /\ stderr_pipe' = Append(stderr_pipe, percent)
    /\ lastPercent' = percent
    /\ lines' = lines + 1
    /\ UNCHANGED <<ppc, child, av1an_rx, progress_rx>>
    /\ UNCHANGED <<storeVars, max_attempts, workerVars, watcherVars, opVars,
                   histVars, lastTrans, trackerVars, engineVars, reloadVars, startVars,
                   subtitleVars,
                   tempVars,
                   channelVars,
                   enqueueVars,
                   folderVars>>

\* The av1an process exits with success.
av1an_exits ==
    /\ child = "running"
    /\ child' = "exited"
    /\ UNCHANGED <<ppc, lines, lastPercent, stderr_pipe, av1an_rx, progress_rx>>
    /\ UNCHANGED <<storeVars, max_attempts, workerVars, watcherVars, opVars,
                   histVars, lastTrans, trackerVars, engineVars, reloadVars, startVars,
                   subtitleVars,
                   tempVars,
                   channelVars,
                   enqueueVars,
                   folderVars>>

\* encode's stderr task: lines.next_line(), parse_progress, tx.send(progress).
stderr_reader ==
    /\ stderr_pipe # <<>>
    /\ Len(av1an_rx) < EncoderChannelCapacity
    /\ av1an_rx' = Append(av1an_rx, Head(stderr_pipe))
    /\ stderr_pipe' = Tail(stderr_pipe)
    /\ UNCHANGED <<ppc, child, lines, lastPercent, progress_rx>>
    /\ UNCHANGED <<storeVars, max_attempts, workerVars, watcherVars, opVars,
                   histVars, lastTrans, trackerVars, engineVars, reloadVars, startVars,
                   subtitleVars,
                   tempVars,
                   channelVars,
                   enqueueVars,
                   folderVars>>

\* The forwarding task: progress_rx.recv(), tx.send of the scaled percent.
forward_progress ==
    /\ av1an_rx # <<>>
    /\ publish(scaled(Head(av1an_rx)))
    /\ av1an_rx' = Tail(av1an_rx)
    /\ UNCHANGED <<ppc, child, lines, lastPercent, stderr_pipe>>
    /\ UNCHANGED <<storeVars, max_attempts, workerVars, watcherVars, opVars,
                   histVars, lastTrans, trackerVars, engineVars, reloadVars, startVars,
                   subtitleVars,
                   tempVars,
                   channelVars,
                   enqueueVars,
                   folderVars>>

run_encode_pipeline ==
    \/ phase_analyzing \/ phase_extracting \/ phase_encoding
    \/ encode_handle_await
    \/ phase_audio \/ phase_muxing \/ phase_verifying \/ phase_complete

av1an ==
    \/ \E percent \in EncoderPercents : av1an_prints(percent)
    \/ av1an_exits

NextProgress ==
    run_encode_pipeline \/ av1an \/ stderr_reader \/ forward_progress

InitProgress ==
    QueueIdle /\ TrackerIdle /\ EngineIdle /\ ReloadInit /\ ProgressInit
        /\ StartIdle /\ SubtitleIdle
        /\ TempIdle
        /\ ChannelIdle
        /\ EnqueueIdle
        /\ FolderIdle

SpecProgress == InitProgress /\ [][NextProgress]_vars

\* C22: the progress events published for one job on the worker's progress
\* channel arrive in non-decreasing percent order, for every interleaving of
\* the worker's own phase updates (0, 5, 10, 85, 95, 99, 100) with the
\* forwarding task that relays the encoder's percent scaled to 10 + 0.7 * p.
C22_ProgressNonDecreasing ==
    \A i \in 1..Len(progress_rx) - 1 : progress_rx[i] <= progress_rx[i + 1]

(***************************************************************************)
(* WatcherManager::start (src/src/watcher/manager.rs): a folder watcher    *)
(* for each profile of the configuration, in its order, then the intake    *)
(* loop.                                                                   *)
(***************************************************************************)
\* start returns: the next profile, or run_loop after the last one.
next_profile ==
    IF profile_idx < MaxProfiles
    THEN /\ profile_idx' = profile_idx + 1
         /\ start_pc' = "new"
    ELSE /\ start_pc' = "run_loop"
         /\ UNCHANGED profile_idx

\* add_watcher: FolderWatcher::new(..)? compiles the profile's file patterns.
add_watcher_new ==
    /\ start_pc = "new"
    /\ start_pc' = IF subscription[profile_idx] = "invalid_pattern"
                   THEN "failed" ELSE "watch"
    /\ UNCHANGED <<profile_idx, watchers, scanned, subscription,
                   process_existing>>
    /\ UNCHANGED <<storeVars, max_attempts, workerVars, watcherVars, opVars,
                   histVars, lastTrans, trackerVars, engineVars, reloadVars,
                   progressVars,
                   subtitleVars,
                   tempVars,
                   channelVars,
                   enqueueVars,
                   folderVars>>

\* add_watcher: watcher.start().await?, then the profile is recorded; start
\* goes on to scan_existing or to the next profile.
add_watcher_start ==
    /\ start_pc = "watch"
    /\ IF subscription[profile_idx] = "watch_failed"
       THEN /\ start_pc' = "failed"
            /\ UNCHANGED <<profile_idx, watchers>>
       ELSE /\ watchers' = watchers \cup {profile_idx}
            /\ IF process_existing
               THEN /\ start_pc' = "scan"
                    /\ UNCHANGED profile_idx
               ELSE next_profile
    /\ UNCHANGED <<scanned, subscription, process_existing>>
    /\ UNCHANGED <<storeVars, max_attempts, workerVars, watcherVars, opVars,
                   histVars, lastTrans, trackerVars, engineVars, reloadVars,
                   progressVars,
                   subtitleVars,
                   tempVars,
                   channelVars,
                   enqueueVars,
                   folderVars>>

\* scan_existing: the files already in the profile's folder are tracked.
scan_existing ==
    /\ start_pc = "scan"
    /\ scanned' = scanned \cup {profile_idx}
    /\ next_profile
    /\ UNCHANGED <<watchers, subscription, process_existing>>
    /\ UNCHANGED <<storeVars, max_attempts, workerVars, watcherVars, opVars,
                   histVars, lastTrans, trackerVars, engineVars, reloadVars,
                   progressVars,
                   subtitleVars,
                   tempVars,
                   channelVars,
                   enqueueVars,
                   folderVars>>

manager_start == add_watcher_new \/ add_watcher_start \/ scan_existing

NextStart == manager_start

\* The manager as run_pipeline builds it: each profile's folder can or cannot
\* be subscribed.
StartInit ==
    /\ start_pc = "new"
    /\ profile_idx = 1
    /\ watchers = {}
    /\ scanned = {}
    /\ subscription \in [Profiles -> Subscriptions]
    /\ process_existing \in BOOLEAN

InitStart ==
    QueueIdle /\ TrackerIdle /\ EngineIdle /\ ReloadInit /\ ProgressInit
        /\ StartInit /\ SubtitleIdle
        /\ TempIdle
        /\ ChannelIdle
        /\ EnqueueIdle
        /\ FolderIdle

SpecStart == InitStart /\ [][NextStart]_vars

\* start has returned or has entered run_loop.
StartSettled == start_pc \in {"run_loop", "failed"}

\* C23: if the subscription for one profile's folder watcher fails at startup,
\* only that profile is disabled: the watchers of all other profiles are still
\* started and the intake loop still runs.
C23_OnlyFailedProfileDisabled ==
    StartSettled =>
        /\ watchers = {p \in Profiles : subscription[p] = "ok"}
        /\ start_pc = "run_loop"

(***************************************************************************)
(* Interruption of the worker (src/src/lib.rs, run_pipeline): on Ctrl-C    *)
(* the main loop breaks and run_pipeline returns without waiting for the   *)
(* worker, whose task is dropped at the await it is suspended in.          *)
(***************************************************************************)
\* The worker's task is dropped while it holds a job: between two store
\* commands, or inside process_job.
interrupt ==
    /\ wjob # None
    /\ wpc \notin {"interrupted", "terminated"}
    /\ wpc' = "interrupted"
    /\ lastTrans' = <<>>
    /\ UNCHANGED nonQueueVars
    /\ UNCHANGED <<storeVars, max_attempts, wid, wjob, watcherVars, opVars,
                   histVars>>

NextInterrupt == Intake \/ Worker \/ interrupt

SpecInterrupt == Init /\ [][NextInterrupt]_vars

\* C24: if processing is interrupted after dequeue has returned a job and
\* before the job's complete, retry or dead-letter call has finished, the
\* job's id is still in the in-flight set, where recovery can find it.
C24_InterruptedJobIsInFlight ==
    wpc = "interrupted" => wjob[1].id \in processing

(***************************************************************************)
(* Subtitle decisions (src/src/media/subtitle.rs) and what the worker does *)
(* with them: extract_subtitles and burn_subtitles (src/src/encoder/       *)
(* ffmpeg.rs), mux (src/src/encoder/mkvmerge.rs).                          *)
(***************************************************************************)
ImageSubsMode == {"Copy", "BurnIn", "Exclude"}

\* probe: a SubtitleStream; the video stream has index 0.
SubtitleStream(index, language, is_forced, is_hearing_impaired, is_image_based) ==
    [index |-> index, language |-> language, is_forced |-> is_forced,
     is_hearing_impaired |-> is_hearing_impaired,
     is_image_based |-> is_image_based]

SubtitleTrackConfig(language, include_forced, include_full, include_sdh, burn_in) ==
    [language |-> language, include_forced |-> include_forced,
     include_full |-> include_full, include_sdh |-> include_sdh,
     burn_in |-> burn_in]

\* should_include_track
should_include_track(stream, tc) ==
    IF stream.is_forced THEN tc.include_forced
    ELSE IF stream.is_hearing_impaired THEN tc.include_sdh
    ELSE tc.include_full

\* config.tracks.iter().find(|t| &t.language == lang), for a stream's language.
find_track_config(stream, cfg) ==
    IF stream.language = None THEN None
    ELSE LET hits == {i \in 1..Len(cfg.tracks) :
                          cfg.tracks[i].language = stream.language[1]}
         IN IF hits = {} THEN None
            ELSE Some(cfg.tracks[CHOOSE i \in hits : \A k \in hits : i <= k])

\* The action of an image-based stream under the global image_subs setting.
image_subs_action(cfg) ==
    CASE cfg.image_subs = "Copy" -> "Copy"
      [] cfg.image_subs = "BurnIn" -> "BurnIn"
      [] cfg.image_subs = "Exclude" -> "Exclude"

\* determine_subtitle_action
determine_subtitle_action(stream, cfg) ==
    LET track_config == find_track_config(stream, cfg)
        action ==
            IF track_config # None
            THEN IF ~should_include_track(stream, track_config[1])
                 THEN "Exclude"
                 ELSE IF track_config[1].burn_in /\ stream.is_image_based
                 THEN "BurnIn"
                 ELSE IF stream.is_image_based THEN image_subs_action(cfg)
                 ELSE "Copy"
            ELSE IF cfg.fallback \in {"Include", "Passthrough"}
                 THEN IF stream.is_image_based THEN image_subs_action(cfg)
                      ELSE "Copy"
                 ELSE "Exclude"
    IN [stream |-> stream, action |-> action]

\* process_subtitle_streams
process_subtitle_streams(strs, cfg) ==
    [i \in 1..Len(strs) |-> determine_subtitle_action(strs[i], cfg)]

\* extract_subtitles: the ExtractedSubtitle of a decision.
ExtractedSubtitle(decision) ==
    [stream_index |-> decision.stream.index,
     language |-> decision.stream.language,
     is_forced |-> decision.stream.is_forced,
     should_burn_in |-> (decision.action = "BurnIn")]

\* extract_subtitles: the decisions that are not exclude and whose ffmpeg run
\* succeeded (those at the positions of ok), in the order of the decisions.
RECURSIVE extract_from(_, _, _)
extract_from(decs, ok, i) ==
    IF i > Len(decs) THEN <<>>
    ELSE IF decs[i].action = "Exclude" \/ i \notin ok
    THEN extract_from(decs, ok, i + 1)
    ELSE <<ExtractedSubtitle(decs[i])>> \o extract_from(decs, ok, i + 1)

\* extracted_subs.iter().find(|s| s.should_burn_in)
burn_in_sub(extracted) ==
    LET hits == {i \in 1..Len(extracted) : extracted[i].should_burn_in}
    IN IF hits = {} THEN None
       ELSE Some(extracted[CHOOSE i \in hits : \A k \in hits : i <= k])

\* mux: subtitles.iter().filter(|s| !s.should_burn_in), as stream indexes.
RECURSIVE mux_subtitles(_, _)
mux_subtitles(extracted, i) ==
    IF i > Len(extracted) THEN <<>>
    ELSE IF extracted[i].should_burn_in THEN mux_subtitles(extracted, i + 1)
    ELSE <<extracted[i].stream_index>> \o mux_subtitles(extracted, i + 1)

\* run_encode_pipeline, phase 2: the subtitle decisions of the job's profile.
decide_subtitles ==
    /\ sub_decisions = None
    /\ sub_decisions' = Some(process_subtitle_streams(sub_streams, sub_config))
    /\ UNCHANGED <<sub_streams, sub_config, extracted_subs, burned, muxed>>
    /\ UNCHANGED <<storeVars, max_attempts, workerVars, watcherVars, opVars,
                   histVars, lastTrans, trackerVars, engineVars, reloadVars,
                   progressVars, startVars,
                   tempVars,
                   channelVars,
                   enqueueVars,
                   folderVars>>

\* run_encode_pipeline, phase 3: extract_subtitles; each ffmpeg run succeeds
\* or fails, and a stream whose run failed is left out.
extract_subtitles ==
    /\ sub_decisions # None
    /\ extracted_subs = None
    /\ \E ok \in SUBSET (1..Len(sub_decisions[1])) :
           extracted_subs' = Some(extract_from(sub_decisions[1], ok, 1))
    /\ UNCHANGED <<sub_streams, sub_config, sub_decisions, burned, muxed>>
    /\ UNCHANGED <<storeVars, max_attempts, workerVars, watcherVars, opVars,
                   histVars, lastTrans, trackerVars, engineVars, reloadVars,
                   progressVars, startVars,
                   tempVars,
                   channelVars,
                   enqueueVars,
                   folderVars>>

\* run_encode_pipeline, phase 5: burn_subtitles for burn_in_sub, if any.
burn_subtitles ==
    /\ extracted_subs # None
    /\ burned = None
    /\ burned' = Some(IF burn_in_sub(extracted_subs[1]) = None THEN {}
                      ELSE {burn_in_sub(extracted_subs[1])[1].stream_index})
    /\ UNCHANGED <<sub_streams, sub_config, sub_decisions, extracted_subs,
                   muxed>>
    /\ UNCHANGED <<storeVars, max_attempts, workerVars, watcherVars, opVars,
                   histVars, lastTrans, trackerVars, engineVars, reloadVars,
                   progressVars, startVars,
                   tempVars,
                   channelVars,
                   enqueueVars,
                   folderVars>>

\* run_encode_pipeline, phase 7: mkvmerge::mux with the extracted subtitles.
mux ==
    /\ burned # None
    /\ muxed = None
    /\ muxed' = Some(mux_subtitles(extracted_subs[1], 1))
    /\ UNCHANGED <<sub_streams, sub_config, sub_decisions, extracted_subs,
                   burned>>
    /\ UNCHANGED <<storeVars, max_attempts, workerVars, watcherVars, opVars,
                   histVars, lastTrans, trackerVars, engineVars, reloadVars,
                   progressVars, startVars,
                   tempVars,
                   channelVars,
                   enqueueVars,
                   folderVars>>

NextSubtitles == decide_subtitles \/ extract_subtitles \/ burn_subtitles \/ mux

\* The subtitle streams of a file: stream i of the list has index i.
SubtitleStreamLists ==
    SeqUpTo({SubtitleStream(0, l, f, h, g) :
                 l \in {None} \cup {Some(x) : x \in Languages},
                 f \in BOOLEAN, h \in BOOLEAN, g \in BOOLEAN},
            MaxSubStreams)

WithIndexes(strs) == [i \in 1..Len(strs) |-> [strs[i] EXCEPT !.index = i]]

\* The subtitle configurations: no track configuration or one for "eng".
SubtitleConfigs ==
    {[tracks |-> t, image_subs |-> m, fallback |-> fb] :
        t \in {<<>>} \cup
              {<<SubtitleTrackConfig("eng", a, b, c, d)>> :
                   a \in BOOLEAN, b \in BOOLEAN, c \in BOOLEAN, d \in BOOLEAN},
        m \in ImageSubsMode, fb \in TrackFallback}

SubtitleInit ==
    /\ sub_streams \in {WithIndexes(strs) : strs \in SubtitleStreamLists}
    /\ sub_config \in SubtitleConfigs
    /\ sub_decisions = None
    /\ extracted_subs = None
    /\ burned = None
    /\ muxed = None

InitSubtitles ==
    QueueIdle /\ TrackerIdle /\ EngineIdle /\ ReloadInit /\ ProgressInit
        /\ StartIdle /\ SubtitleInit
        /\ TempIdle
        /\ ChannelIdle
        /\ EnqueueIdle
        /\ FolderIdle

SpecSubtitles == InitSubtitles /\ [][NextSubtitles]_vars

\* The extracted subtitles whose decision is burn_in, in stream order.
BurnInsExtracted ==
    {i \in 1..Len(extracted_subs[1]) : extracted_subs[1][i].should_burn_in}

\* C25: when several subtitle decisions are burn_in, the worker burns in only
\* the first one in stream order and every additional burn_in subtitle is
\* treated as copy: it is still muxed into the output as a subtitle track.
C25_ExtraBurnInsAreMuxed ==
    muxed # None =>
        \A i \in BurnInsExtracted :
            IF \A k \in BurnInsExtracted : i <= k
            THEN /\ burned[1] = {extracted_subs[1][i].stream_index}
                 /\ extracted_subs[1][i].stream_index \notin Range(muxed[1])
            ELSE /\ extracted_subs[1][i].stream_index \notin burned[1]
                 /\ extracted_subs[1][i].stream_index \in Range(muxed[1])

\* The chain of the inclusion rules for a stream and its track configuration.
ChainExcludes(stream, tc) ==
    \/ stream.is_forced /\ ~tc.include_forced
    \/ stream.is_hearing_impaired /\ ~tc.include_sdh
    \/ ~stream.is_forced /\ ~stream.is_hearing_impaired /\ ~tc.include_full

\* C27: for a subtitle stream whose language has a track config, forced and
\* include_forced = false gives exclude; else hearing-impaired and
\* include_sdh = false gives exclude; else neither forced nor hearing-impaired
\* and include_full = false gives exclude; a stream that is both forced and
\* hearing-impaired is excluded when include_forced = true and
\* include_sdh = false.
C27_InclusionChain ==
    sub_decisions # None =>
        \A i \in 1..Len(sub_streams) :
            LET tc == find_track_config(sub_streams[i], sub_config)
            IN (tc # None /\ ChainExcludes(sub_streams[i], tc[1]))
                   => sub_decisions[1][i].action = "Exclude"

(***************************************************************************)
(* The per-language cap and the choice of the rule, on the decisions of    *)
(* process_audio_streams.                                                  *)
(***************************************************************************)
\* The rule that matches stream i has an action other than exclude.
RuleKeeps(i) ==
    LET m == match_stream_to_rule(streams[i], config)
    IN m # None /\ config.rules[m[1] + 1].action # "Exclude"

\* The streams up to i of the language of stream i whose rule keeps them.
KeptByRuleUpTo(i) ==
    {k \in 1..i : streams[k].language = streams[i].language /\ RuleKeeps(k)}

\* C26: the per-language counter counts only kept tracks: a stream whose
\* matching rule yields exclude does not consume the language's cap, so with
\* max_tracks_per_language = n the first n streams of a language whose rule
\* action is non-exclude are kept, however many excluded streams of that
\* language precede them.
C26_CapCountsKeptTracksOnly ==
    (decisions # None /\ config.max_tracks_per_language # None) =>
        \A i \in 1..Len(streams) :
            (/\ streams[i].language # None
             /\ RuleKeeps(i)
             /\ Cardinality(KeptByRuleUpTo(i))
                    <= config.max_tracks_per_language[1])
            => decisions[1][i].action.kind # "Exclude"

\* The rules of the configuration whose criteria match stream i, counted from
\* 0 as matched_rule counts them.
MatchingRules(i) ==
    {r \in 0..(Len(config.rules) - 1) :
         matches_criteria(streams[i], config.rules[r + 1].match_criteria)}

\* C28: for every audio stream the decision is derived from the lowest-indexed
\* rule whose every present criterion matches the stream: matched_rule is that
\* index, no rule with a smaller index matches, and the action is the one
\* create_decision gives for that rule (or the exclude of the per-language
\* cap, when a cap is set and the stream has a language).  The fallback
\* decision is used, with matched_rule absent, exactly when no rule matches.
C28_FirstMatchingRuleDecides ==
    decisions # None =>
        /\ Len(decisions[1]) = Len(streams)
        /\ \A i \in 1..Len(streams) :
               LET d == decisions[1][i]
               IN /\ d.stream = streams[i]
                  /\ (d.matched_rule = None) <=> (MatchingRules(i) = {})
                  /\ d.matched_rule = None =>
                         d = fallback_decision(streams[i], config)
                  /\ d.matched_rule # None =>
                         LET r == d.matched_rule[1]
                         IN /\ r \in MatchingRules(i)
                            /\ \A k \in MatchingRules(i) : r <= k
                            /\ \/ d = create_decision(streams[i],
                                                      config.rules[r + 1], r)
                               \/ /\ d.action = Exclude
                                  /\ config.max_tracks_per_language # None
                                  /\ streams[i].language # None

\* One stream matches both rules of the list and is decided by the first, while
\* the second rule alone would decide otherwise; another stream matches only
\* the second rule; or no rule and takes the fallback.
C28_Witness ==
    /\ decisions # None
    /\ Len(config.rules) = 2
    /\ config.rules[1].action # config.rules[2].action
    /\ \E i \in 1..Len(streams) :
           /\ MatchingRules(i) = {0, 1}
           /\ decisions[1][i].matched_rule = Some(0)
    /\ \E i \in 1..Len(streams) :
           /\ MatchingRules(i) = {}
           /\ decisions[1][i].matched_rule = None

(***************************************************************************)
(* The tracker under a configuration of two profiles, a.mkv in the input   *)
(* folder of one and b.mkv in the input folder of the other (the           *)
(* validation of the paths rejects input folders that overlap, so a path   *)
(* has the watcher of one profile).  A file that is tracked may be moved   *)
(* away before it is ready.                                                *)
(***************************************************************************)
\* A tracked file is removed or moved out of the folder: a Remove event,
\* which process_event ignores.
FileVanishes(path) ==
    /\ tracked_files[path] # None
    /\ fsize[path] # None
    /\ fsize' = [fsize EXCEPT ![path] = None]
    /\ emitsInWindow' = [emitsInWindow EXCEPT ![path] = 0]
    /\ lastEmit' = <<>>
    /\ lastTrack' = None
    /\ UNCHANGED <<stability_duration, poll_interval, watching,
                   tracked_files, now, loopAt, file_rx, ready_rx, fsEvents,
                   obsRun>>
    /\ UNCHANGED <<storeVars, max_attempts, workerVars, watcherVars, opVars,
                   histVars, lastTrans, engineVars, reloadVars,
                   progressVars, startVars,
                   subtitleVars,
                   tempVars,
                   channelVars,
                   enqueueVars,
                   folderVars>>

\* WatcherManager::new and start under that configuration.
TwoFoldersInit ==
    /\ stability_duration = MaxDuration
    /\ poll_interval = 1
    /\ watching = [p \in Paths |->
                       IF p = "a.mkv" THEN {"movies"} ELSE {"tv"}]
    /\ fsize = [p \in Paths |-> None]
    /\ tracked_files = [p \in Paths |-> None]
    /\ now = 0
    /\ loopAt = 0
    /\ file_rx = <<>>
    /\ ready_rx = <<>>
    /\ fsEvents = 0
    /\ emitsInWindow = [p \in Paths |-> 0]
    /\ lastEmit = <<>>
    /\ lastTrack = None
    /\ obsRun = [p \in Paths |-> None]

InitTwoFolders ==
    QueueIdle /\ TwoFoldersInit /\ EngineIdle /\ ReloadInit /\ ProgressInit
        /\ StartIdle /\ SubtitleIdle
        /\ TempIdle
        /\ ChannelIdle
        /\ EnqueueIdle
        /\ FolderIdle

NextTwoFolders ==
    \/ FileSystem
    \/ \E path \in Paths : FileVanishes(path)
    \/ run_loop
    \/ Tick

SpecTwoFolders == InitTwoFolders /\ [][NextTwoFolders]_vars

\* C29: track(path, profile) on a path that is already tracked is a no-op: the
\* entry keeps its last_size, its stable_since (the stability window is not
\* restarted) and its profile name, and every other entry is unchanged.
C29_TrackOfTrackedPathIsNoOp ==
    (lastTrack # None /\ lastTrack[1].before[lastTrack[1].path] # None) =>
        tracked_files = lastTrack[1].before

\* A path whose entry has a stable_since was detected once more (an event
\* that left its size as it was) and track has run.
C29_Witness ==
    /\ lastTrack # None
    /\ LET entry == lastTrack[1].before[lastTrack[1].path]
       IN /\ entry # None
          /\ entry[1].stable_since # None
          /\ entry[1].profile_name = lastTrack[1].profile_name

\* C30: in check_all, when the stat of a tracked path fails the entry is
\* retained with last_size and stable_since unchanged, nothing is emitted for
\* it on that tick, and the remaining tracked entries are still checked on the
\* same tick: each is emitted and removed when it is stable for the window,
\* and else updated from its current size.
C30_FailedStatKeepsEntry ==
    [][check_all =>
           \A p \in Paths :
               (tracked_files[p] # None /\ fsize[p] = None) =>
                   /\ tracked_files'[p] = tracked_files[p]
                   /\ \A i \in 1..Len(ready_rx') : ready_rx'[i] # p
                   /\ \A q \in Paths \ {p} :
                          (tracked_files[q] # None /\ fsize[q] # None) =>
                              IF /\ size_is_stable(fsize[q][1],
                                                   tracked_files[q][1])
                                 /\ is_ready(tracked_files[q][1])
                              THEN /\ tracked_files'[q] = None
                                   /\ \E i \in 1..Len(ready_rx') :
                                          ready_rx'[i] = q
                              ELSE tracked_files'[q] =
                                       Some(check_entry(fsize[q][1],
                                                        tracked_files[q][1]))]_vars

\* A check_all has just emitted one path while the file of another tracked
\* path was gone: that entry is still in the map.
C30_Witness ==
    /\ lastEmit # <<>>
    /\ \E p \in Paths :
           /\ tracked_files[p] # None
           /\ fsize[p] = None
           /\ \A i \in 1..Len(lastEmit) : lastEmit[i].path # p

\* C31: clear_queue removes every id from the pending list and returns the
\* number of ids it removed, and leaves the in-flight set, the dead-letter
\* list and all job records unchanged, also when an enqueue or a dequeue of
\* another task interleaves with it.
C31_ClearQueueReturnsRemovedCount ==
    [][clear_queue_del =>
           /\ queue' = <<>>
           /\ ores' = "Ok"
           /\ olen' = Len(queue)
           /\ UNCHANGED <<processing, dead, jobs>>]_vars

(***************************************************************************)
(* process_job and the job's temp directory.  The directory encode_<id> is *)
(* created after the profile lookup and removed after run_encode_pipeline  *)
(* has returned, whatever it returned.  av1an::encode makes a directory of *)
(* its own, av1an_<uuid>, and removes it after the child has exited.  The  *)
(* calls of the file system (create_dir_all, remove_dir_all) succeed.      *)
(***************************************************************************)
\* run_encode_pipeline: its phases, in the order of the code.
PipelinePhases ==
    <<"probe", "extract_subtitles", "encode", "burn_subtitles",
      "process_audio", "mux", "verify">>

\* run_encode_pipeline: the errors a phase returns with.
PhaseErrors(phase) ==
    CASE phase = "probe" -> {"SpawnFailed"}
      [] phase = "extract_subtitles" -> {"SpawnFailed"}
      [] phase = "encode" -> {"SpawnFailed", "Av1anFailed"}
      [] phase = "burn_subtitles" -> {"SpawnFailed", "FfmpegFailed"}
      [] phase = "process_audio" -> {"SpawnFailed", "FfmpegFailed"}
      [] phase = "mux" -> {"SpawnFailed", "MkvmergeFailed"}
      [] phase = "verify" -> {"VerificationFailed"}

\* run_encode_pipeline: the files a phase writes into the temp directory.
PhaseWrites(phase) ==
    CASE phase = "extract_subtitles" -> {"sub"}
      [] phase = "encode" -> {"video.mkv"}
      [] phase = "burn_subtitles" -> {"video_burned.mkv"}
      [] phase = "process_audio" -> {"audio.mka"}
      [] OTHER -> {}

\* run_encode_pipeline: the phase after a phase that succeeded; burn-in runs
\* only when a subtitle to burn in was extracted.
next_phase(phase, burn_in) ==
    CASE phase = "probe" -> "extract_subtitles"
      [] phase = "extract_subtitles" -> "encode"
      [] phase = "encode" -> IF burn_in THEN "burn_subtitles" ELSE "process_audio"
      [] phase = "burn_subtitles" -> "process_audio"
      [] phase = "process_audio" -> "mux"
      [] phase = "mux" -> "verify"

\* Mutant: the result of the pipeline is propagated with ? before the cleanup.
after_pipeline_propagating(result) ==
    IF result = "Ok" THEN "cleanup" ELSE "idle"

\* process_job: where it goes on when run_encode_pipeline has returned:
\* the result is kept in a local and the cleanup runs.
after_pipeline(result) == "cleanup"

\* process_job is called for the job (once per attempt).
process_job_call ==
    /\ pj_pc = "idle"
    /\ pj_calls < MaxAttemptsCap
    /\ pj_calls' = pj_calls + 1
    /\ pj_result' = None
    /\ pj_pc' = "lookup"
    /\ UNCHANGED <<temp_dir, av1an_temp_dirs, has_burn_in_sub>>
    /\ UNCHANGED <<storeVars, max_attempts, workerVars, watcherVars, opVars,
                   histVars, lastTrans, trackerVars, engineVars, reloadVars,
                   progressVars, startVars, subtitleVars,
                   channelVars,
                   enqueueVars,
                   folderVars>>

\* process_job: the profile of the job is looked up in the configuration; a
\* job whose profile is gone returns SpawnFailed.
process_job_lookup ==
    /\ pj_pc = "lookup"
    /\ \/ /\ pj_pc' = "create_dir"
          /\ UNCHANGED pj_result
       \/ /\ pj_pc' = "idle"
          /\ pj_result' = Some("SpawnFailed")
    /\ UNCHANGED <<temp_dir, av1an_temp_dirs, has_burn_in_sub, pj_calls>>
    /\ UNCHANGED <<storeVars, max_attempts, workerVars, watcherVars, opVars,
                   histVars, lastTrans, trackerVars, engineVars, reloadVars,
                   progressVars, startVars, subtitleVars,
                   channelVars,
                   enqueueVars,
                   folderVars>>

\* process_job: create_dir_all(temp_dir), then run_encode_pipeline begins.
process_job_create_dir ==
    /\ pj_pc = "create_dir"
    /\ temp_dir' = IF temp_dir = None THEN Some({}) ELSE temp_dir
    /\ has_burn_in_sub' = FALSE
    /\ pj_pc' = "probe"
    /\ UNCHANGED <<av1an_temp_dirs, pj_result, pj_calls>>
    /\ UNCHANGED <<storeVars, max_attempts, workerVars, watcherVars, opVars,
                   histVars, lastTrans, trackerVars, engineVars, reloadVars,
                   progressVars, startVars, subtitleVars,
                   channelVars,
                   enqueueVars,
                   folderVars>>

\* run_encode_pipeline: a phase succeeds; the last one returns Ok(()).
pipeline_phase_ok(phase) ==
    /\ pj_pc = phase
    /\ temp_dir' = Some(temp_dir[1] \cup PhaseWrites(phase))
    /\ IF phase = "extract_subtitles"
       THEN has_burn_in_sub' \in BOOLEAN
       ELSE UNCHANGED has_burn_in_sub
    /\ IF phase = "verify"
       THEN /\ pj_result' = Some("Ok")
            /\ pj_pc' = after_pipeline("Ok")
       ELSE /\ pj_pc' = next_phase(phase, has_burn_in_sub)
            /\ UNCHANGED pj_result
    /\ UNCHANGED <<av1an_temp_dirs, pj_calls>>
    /\ UNCHANGED <<storeVars, max_attempts, workerVars, watcherVars, opVars,
                   histVars, lastTrans, trackerVars, engineVars, reloadVars,
                   progressVars, startVars, subtitleVars,
                   channelVars,
                   enqueueVars,
                   folderVars>>

\* run_encode_pipeline: a phase returns an error, after writing its files or
\* before.  av1an::encode returns SpawnFailed from cmd.spawn() or child.wait()
\* before it removes its own directory.
pipeline_phase_err(phase, error) ==
    /\ pj_pc = phase
    /\ error \in PhaseErrors(phase)
    /\ \E written \in SUBSET PhaseWrites(phase) :
           temp_dir' = Some(temp_dir[1] \cup written)
    /\ av1an_temp_dirs' =
           IF phase = "encode" /\ error = "SpawnFailed"
           THEN av1an_temp_dirs + 1 ELSE av1an_temp_dirs
    /\ pj_result' = Some(error)
    /\ pj_pc' = after_pipeline(error)
    /\ UNCHANGED <<has_burn_in_sub, pj_calls>>
    /\ UNCHANGED <<storeVars, max_attempts, workerVars, watcherVars, opVars,
                   histVars, lastTrans, trackerVars, engineVars, reloadVars,
                   progressVars, startVars, subtitleVars,
                   channelVars,
                   enqueueVars,
                   folderVars>>

\* process_job: remove_dir_all(temp_dir), then the result is returned.
process_job_cleanup ==
    /\ pj_pc = "cleanup"
    /\ temp_dir' = None
    /\ pj_pc' = "idle"
    /\ UNCHANGED <<av1an_temp_dirs, pj_result, has_burn_in_sub, pj_calls>>
    /\ UNCHANGED <<storeVars, max_attempts, workerVars, watcherVars, opVars,
                   histVars, lastTrans, trackerVars, engineVars, reloadVars,
                   progressVars, startVars, subtitleVars,
                   channelVars,
                   enqueueVars,
                   folderVars>>

process_job ==
    \/ process_job_call
    \/ process_job_lookup
    \/ process_job_create_dir
    \/ \E phase \in Range(PipelinePhases) : pipeline_phase_ok(phase)
    \/ \E phase \in Range(PipelinePhases),
          error \in {"SpawnFailed", "Av1anFailed", "FfmpegFailed",
                     "MkvmergeFailed", "VerificationFailed"} :
           pipeline_phase_err(phase, error)
    \/ process_job_cleanup

NextTemp == process_job

InitTemp ==
    QueueIdle /\ TrackerIdle /\ EngineIdle /\ ReloadInit /\ ProgressInit
        /\ StartIdle /\ SubtitleIdle
        /\ TempIdle
        /\ ChannelIdle
        /\ EnqueueIdle
        /\ FolderIdle

SpecTemp == InitTemp /\ [][NextTemp]_vars

NoQueueOperationInProgress ==
    /\ epc = "set"
    /\ opc = "idle"
    /\ wpc \in {"dequeue", "process", "pipeline", "terminated"}

\* The jobs whose enqueue has pushed their id to the pending list.
Enqueued(id) == id < nextId

\* C33: no job is lost: in every state in which no queue operation is in
\* progress, the id of every job that was enqueued and has not completed is in
\* the pending list, the in-flight set or the dead-letter list, also when
\* individual store commands inside dequeue, retry_job, dead_letter or
\* retry_dead_letter fail and the operation returns an error part-way.
C33_NoJobLost ==
    NoQueueOperationInProgress =>
        \A id \in JobIds :
            (Enqueued(id) /\ Record(id).status # "Completed")
                => Collections(id) >= 1

\* ---------------------------------------------------------------------------
\* The intake loop and its ready channel, by numbers.  WatcherManager::new
\* makes the ready channel with room for ReadyChannelCapacity paths; its
\* sender is the stability tracker, its receiver is run_loop.  run_loop is one
\* task: a select! over the file channel, the ready channel and the poll
\* timer, and the timer's branch awaits check_all.
\* ---------------------------------------------------------------------------

\* mpsc::channel(100) of the ready channel.
ReadyChannelCapacity == 100

ChannelInit == ChannelIdle

\* send().await proceeds when the channel has a free slot; otherwise the
\* sender waits for the receiver to take a path.
send_may_proceed == ready_len < ReadyChannelCapacity

ChannelFrame ==
    UNCHANGED <<storeVars, max_attempts, workerVars, watcherVars, opVars,
                histVars, lastTrans, trackerVars, engineVars, reloadVars,
                progressVars, startVars, subtitleVars, tempVars,
                   enqueueVars,
                   folderVars>>

\* run_loop takes a detected file from the file channel and tracks it (or
\* scan_existing tracks it at start-up); its size does not change any more,
\* so its window has elapsed at a later tick.
track_file ==
    /\ loop_pc = "select"
    /\ files_seen < MaxFiles
    /\ files_seen' = files_seen + 1
    /\ stable_count' = stable_count + 1
    /\ UNCHANGED <<loop_pc, to_send, ready_len, ready_handled>>
    /\ ChannelFrame

\* The timer's branch of the select!: check_all has gone through the tracked
\* files and collected ready_files; it is at the head of its sending loop.
check_all_begin ==
    /\ loop_pc = "select"
    /\ loop_pc' = "check_all"
    /\ to_send' = stable_count
    /\ stable_count' = 0
    /\ UNCHANGED <<ready_len, files_seen, ready_handled>>
    /\ ChannelFrame

\* One turn of check_all's sending loop: the entry is removed and the path is
\* sent, which needs a free slot in the channel.
check_all_send ==
    /\ loop_pc = "check_all"
    /\ to_send > 0
    /\ send_may_proceed
    /\ to_send' = to_send - 1
    /\ ready_len' = ready_len + 1
    /\ UNCHANGED <<loop_pc, stable_count, files_seen, ready_handled>>
    /\ ChannelFrame

\* check_all returns when ready_files is exhausted; run_loop selects again.
check_all_return ==
    /\ loop_pc = "check_all"
    /\ to_send = 0
    /\ loop_pc' = "select"
    /\ UNCHANGED <<stable_count, to_send, ready_len, files_seen, ready_handled>>
    /\ ChannelFrame

\* The ready branch of the select!: run_loop receives one path and enqueues
\* a job for it.
recv_ready_path ==
    /\ loop_pc = "select"
    /\ ready_len > 0
    /\ ready_len' = ready_len - 1
    /\ ready_handled' = ready_handled + 1
    /\ UNCHANGED <<loop_pc, stable_count, to_send, files_seen>>
    /\ ChannelFrame

NextChannel ==
    \/ track_file
    \/ check_all_begin
    \/ check_all_send
    \/ check_all_return
    \/ recv_ready_path

InitChannel ==
    QueueIdle /\ TrackerIdle /\ EngineIdle /\ ReloadInit /\ ProgressInit
        /\ StartIdle /\ SubtitleIdle
        /\ TempIdle
        /\ ChannelInit
        /\ EnqueueIdle
        /\ FolderIdle

SpecChannel == InitChannel /\ [][NextChannel]_vars

\* C34: the intake loop never deadlocks: every call of check_all returns, for
\* any number of files that become ready on the same tick.  check_all is
\* never at a send that cannot proceed: while it is awaited nothing receives
\* from the ready channel, so a send that waits for a free slot waits forever.
C34_CheckAllNeverBlocks ==
    ~ (loop_pc = "check_all" /\ to_send > 0 /\ ~ send_may_proceed)

\* C35: the pending list never contains the same job id twice, after any
\* sequence of enqueue, retry_job and retry_dead_letter calls,
\* retry_dead_letter called repeatedly for the same id included.
C35_PendingHasNoDuplicates ==
    \A i, j \in 1..Len(queue) : queue[i] = queue[j] => i = j

\* The pipeline in a crash-free run: an enqueue that has started finishes, and
\* the worker's loop goes on (every store command returns, every attempt of
\* the pipeline ends with Ok or Err).
SpecFairPipeline ==
    Init /\ [][NextPipeline]_vars /\ WF_vars(Intake) /\ WF_vars(Worker)

\* The job has reached a final status and the worker is done with its id.
Finished(id) ==
    /\ HasRecord(id)
    /\ Record(id).status \in {"Completed", "DeadLetter"}
    /\ ~ InPending(id)
    /\ ~ InFlight(id)

\* C36: in a crash-free run in which every store command succeeds, every
\* attempt of the pipeline terminates and finitely many jobs are enqueued,
\* every enqueued job eventually has status completed or dead_letter, with its
\* id in neither the pending list nor the in-flight set, and stays so.
C36_EveryJobSettles ==
    \A id \in JobIds : [](Enqueued(id) => <>[]Finished(id))

\* Every job was enqueued and has finished, one after its attempts were used
\* up and one completed after a retry.
C36_Witness ==
    /\ nextId = MaxJobs + 1
    /\ \A id \in JobIds : Finished(id)
    /\ \E id \in JobIds : Record(id).status = "DeadLetter"
    /\ \E id \in JobIds :
           Record(id).status = "Completed" /\ Record(id).attempt_count >= 1

\* C37: whenever no queue operation is in progress, the persisted status
\* agrees with the collections: every id in the pending list has a record
\* with status pending, every id in the dead-letter list has a record with
\* status dead_letter, and the id of every record with status completed is in
\* none of the three collections.
C37_StatusAgreesWithCollections ==
    NoQueueOperationInProgress =>
        \A id \in JobIds :
            /\ InPending(id) =>
                   HasRecord(id) /\ Record(id).status = "Pending"
            /\ InDeadLetter(id) =>
                   HasRecord(id) /\ Record(id).status = "DeadLetter"
            /\ (HasRecord(id) /\ Record(id).status = "Completed")
                   => Collections(id) = 0

\* ---------------------------------------------------------------------------
\* run_loop's ready branch with the outcome of enqueue_file.
\* ---------------------------------------------------------------------------

\* What QueueManager::enqueue returns to enqueue_file: Ok, or the error of a
\* store command, which enqueue_file maps to WatcherError::WatchFailed.
EnqueueResults == {"Ok", "WatchFailed"}

\* run_loop, second branch: a ready path is received and enqueue_file is
\* called with it.  With Ok a job for the path is in the pending list; an Err
\* is logged by run_loop and nothing else is done with the path.
recv_ready_enqueue(result) ==
    /\ ready_rx # <<>>
    /\ ready_rx' = Tail(ready_rx)
    /\ enqueued_files' = IF result = "Ok"
                         THEN enqueued_files \cup {Head(ready_rx)}
                         ELSE enqueued_files
    /\ loopAt' = now
    /\ lastEmit' = <<>>
    /\ lastTrack' = None
    /\ UNCHANGED <<stability_duration, poll_interval, watching,
                   fsize, tracked_files,
                   now, file_rx, fsEvents, emitsInWindow, obsRun>>
    /\ UNCHANGED <<storeVars, max_attempts, workerVars, watcherVars, opVars,
                   histVars, lastTrans, engineVars, reloadVars,
                   progressVars, startVars, subtitleVars, tempVars,
                   channelVars,
                   folderVars>>

NextEnqueue ==
    \/ FileSystem
    \/ recv_detected
    \/ \E result \in EnqueueResults : recv_ready_enqueue(result)
    \/ check_all
    \/ Tick

InitEnqueue ==
    QueueIdle /\ TrackerInit /\ EngineIdle /\ ReloadInit /\ ProgressInit
        /\ StartIdle /\ SubtitleIdle
        /\ TempIdle
        /\ ChannelIdle
        /\ EnqueueIdle
        /\ FolderIdle

SpecEnqueue == InitEnqueue /\ [][NextEnqueue]_vars

\* The path is tracked, or on its way to the tracker or to run_loop again.
StillTracked(path) ==
    \/ tracked_files'[path] # None
    \/ \E i \in 1..Len(file_rx') : file_rx'[i].path = path
    \/ path \in Range(ready_rx')

\* C38: a file emitted as ready is never silently lost: when run_loop has
\* taken an emitted path from the ready channel, a job for the path has been
\* appended to the pending list or the path is still tracked (or tracked
\* again), so that a later tick can emit it again, also when the store call
\* of enqueue fails.
C38_ReadyFileNotLost ==
    [][(ready_rx # <<>> /\ ready_rx' = Tail(ready_rx))
          => \/ Head(ready_rx) \in enqueued_files'
             \/ StillTracked(Head(ready_rx))]_vars

\* ---------------------------------------------------------------------------
\* The watched folder, the output path of a job and the files the worker
\* writes.  A directory is the sequence of its components; a file is its
\* directory and its name, the name being the sequence of its stem and its
\* extensions (<<"x", ".mkv">> is x.mkv).
\* ---------------------------------------------------------------------------

\* The profiles of the configurations: one input folder, an output folder that
\* is the same folder, a folder next to it or a folder inside it.
FolderProfiles ==
    [input_path : {<<"in">>},
     output_path : {<<"in">>, <<"out">>, <<"in", "out">>},
     recursive : BOOLEAN,
     structure : {"Mirror", "Flat"},
     filename : {"Preserve", "Template"},
     suffix : {None, Some(".av1")}]

\* validation::paths::validate, the test on the two paths of a profile: an
\* error when they are equal (the folders exist and can be read and written).
paths_validate(p) == p.input_path # p.output_path

\* The files a user puts into the input folder.
SourceFiles ==
    {[dir |-> <<"in">>, name |-> <<"x", ".mkv">>],
     [dir |-> <<"in", "movies">>, name |-> <<"y", ".mkv">>],
     [dir |-> <<"in">>, name |-> <<"notes", ".txt">>]}

\* FolderWatcher::start: the folder is watched with its subdirectories when
\* recursive is set, without them otherwise.
is_watched(dir) ==
    IF profile.recursive
    THEN StartsWith(dir, profile.input_path)
    ELSE dir = profile.input_path

\* FolderWatcher::matches_patterns with the default pattern "*.mkv".
matches_patterns(file) == file.name[Len(file.name)] = ".mkv"

\* Path::file_stem: the name without its last extension.
file_stem(name) ==
    IF Len(name) > 1 THEN SubSeq(name, 1, Len(name) - 1) ELSE name

\* Path::strip_prefix(input_path) of the directory, or the directory itself
\* when it does not start with input_path (unwrap_or).
relative_dir(dir, p) ==
    IF StartsWith(dir, p.input_path)
    THEN SubSeq(dir, Len(p.input_path) + 1, Len(dir))
    ELSE dir

\* calculate_output_path.
calculate_output_path(input_path, p) ==
    LET relative == relative_dir(input_path.dir, p)
        output_dir == IF p.structure = "Mirror"
                      THEN p.output_path \o relative
                      ELSE p.output_path
        filename == IF p.filename = "Preserve"
                    THEN file_stem(input_path.name) \o p.suffix \o <<".mkv">>
                    ELSE input_path.name
    IN [dir |-> output_dir, name |-> filename]

\* A file is written into the input folder or a folder below it; the
\* watcher gets a Create event when it watches that folder.
source_arrives(file) ==
    /\ arrived < MaxSources
    /\ arrived' = arrived + 1
    /\ fs_events' = IF is_watched(file.dir)
                    THEN fs_events \cup {file} ELSE fs_events
    /\ UNCHANGED <<profile, detected_files, pending_jobs, written_files,
                   completed_jobs>>
    /\ UNCHANGED <<storeVars, max_attempts, workerVars, watcherVars, opVars,
                   histVars, lastTrans, trackerVars, engineVars, reloadVars,
                   progressVars, startVars, subtitleVars, tempVars,
                   channelVars, enqueueVars>>

\* FolderWatcher::process_event: a file that matches the patterns is sent to
\* the manager (the file does not change any more, so the stability tracker
\* hands it to enqueue_file after its window).
process_event ==
  \E file \in fs_events :
    /\ fs_events' = fs_events \ {file}
    /\ detected_files' = IF matches_patterns(file)
                         THEN detected_files \cup {file} ELSE detected_files
    /\ UNCHANGED <<profile, pending_jobs, written_files, arrived, completed_jobs>>
    /\ UNCHANGED <<storeVars, max_attempts, workerVars, watcherVars, opVars,
                   histVars, lastTrans, trackerVars, engineVars, reloadVars,
                   progressVars, startVars, subtitleVars, tempVars,
                   channelVars, enqueueVars>>

\* WatcherManager::enqueue_file: the profile whose input_path the path starts
\* with, the output path, and the job appended to the pending list.
enqueue_file ==
  \E file \in detected_files :
    /\ detected_files' = detected_files \ {file}
    /\ pending_jobs' =
           IF StartsWith(file.dir, profile.input_path)
           THEN Append(pending_jobs,
                       [input_path |-> file,
                        output_path |-> calculate_output_path(file, profile)])
           ELSE pending_jobs
    /\ UNCHANGED <<profile, fs_events, written_files, arrived, completed_jobs>>
    /\ UNCHANGED <<storeVars, max_attempts, workerVars, watcherVars, opVars,
                   histVars, lastTrans, trackerVars, engineVars, reloadVars,
                   progressVars, startVars, subtitleVars, tempVars,
                   channelVars, enqueueVars>>

\* The worker takes the oldest job and its pipeline succeeds: the mux phase
\* creates the parent directory and writes the file at job.output_path, and
\* the watcher gets a Create event when it watches that directory.
job_completes ==
    /\ pending_jobs # <<>>
    /\ completed_jobs < MaxCompleted
    /\ completed_jobs' = completed_jobs + 1
    /\ pending_jobs' = Tail(pending_jobs)
    /\ LET output == Head(pending_jobs).output_path
       IN /\ written_files' = written_files \cup {output}
          /\ fs_events' = IF is_watched(output.dir)
                          THEN fs_events \cup {output} ELSE fs_events
    /\ UNCHANGED <<profile, detected_files, arrived>>
    /\ UNCHANGED <<storeVars, max_attempts, workerVars, watcherVars, opVars,
                   histVars, lastTrans, trackerVars, engineVars, reloadVars,
                   progressVars, startVars, subtitleVars, tempVars,
                   channelVars, enqueueVars>>

NextFolder ==
    \/ \E file \in SourceFiles : source_arrives(file)
    \/ process_event
    \/ enqueue_file
    \/ job_completes

\* Every configuration that the validation of the paths accepts.
FolderInit ==
    /\ profile \in {p \in FolderProfiles : paths_validate(p)}
    /\ fs_events = {}
    /\ detected_files = {}
    /\ pending_jobs = <<>>
    /\ written_files = {}
    /\ arrived = 0
    /\ completed_jobs = 0

InitFolder ==
    QueueIdle /\ TrackerIdle /\ EngineIdle /\ ReloadInit /\ ProgressInit
        /\ StartIdle /\ SubtitleIdle
        /\ TempIdle
        /\ ChannelIdle
        /\ EnqueueIdle
        /\ FolderInit

SpecFolder == InitFolder /\ [][NextFolder]_vars

\* C39: the pipeline's own output files are never enqueued as source files:
\* for every configuration the validation accepts, no job of the pending list
\* has as its input a file that a completed job has written at its output
\* path.
C39_OutputsAreNotEnqueued ==
    \A i \in 1..Len(pending_jobs) :
        pending_jobs[i].input_path \notin written_files
====
